---- MODULE Spec2Model ----
(***************************************************************************)
(* A model of bootstrap.py: the configuration-resolution and module        *)
(* pipeline (main, Context, the eight BootstrapModule instances) and the   *)
(* helpers they call (_apply_kube_secret, _ensure_namespace, the env-file  *)
(* reader and writer).                                                     *)
(*                                                                         *)
(* Python strings are TLA+ strings; characters are read with SubSeq.       *)
(* A dict is a function whose DOMAIN is its key set.  An argparse value    *)
(* that was not given is None.  External commands (kubectl, helm,          *)
(* ssh-keyscan) act on the cluster record; which of them fail is fixed for *)
(* a behaviour by the set faults (a deterministic environment).            *)
(***************************************************************************)
EXTENDS Integers, Sequences, FiniteSets, TLC

VARIABLES
    args,          \* argparse.Namespace of the invocation (fixed at Init)
    faults,        \* the external steps that fail in this environment
    input,         \* the operator's answers, by prompt (interactive mode)
    existing_env,  \* Context.existing_env: the parsed env file
    env_values,    \* Context.env_values: the resolved-values map
    envFile,       \* the env file on disk, as its lines
    files,         \* the other local files, path -> content
    cluster,       \* the cluster: namespaces, secrets, releases, ...
    log,           \* everything the run did, in order
    pc,            \* position of main: index of the next module, or a phase
    exitCode,      \* process exit status, NoExit while running
    run,           \* number of the current invocation of main
    after,         \* what the previous invocation left behind
    call           \* the calls of _apply_kube_secret made on its own

vars == <<args, faults, input, existing_env, env_values, envFile, files,
          cluster, log, pc, exitCode, run, after, call>>

-----------------------------------------------------------------------------
(* Bounds of the model *)

\* How many invocations of main a behaviour holds.
MaxRuns == 2

\* How many times in a row _apply_kube_secret is called on its own.
MaxCalls == 3

-----------------------------------------------------------------------------
(* Python values *)

None == "<None>"
NoExit == -1

\* Python truthiness of an optional string: neither None nor "".
Truthy(v) == v # None /\ v # ""

\* a or b, for optional strings.
Or(a, b) == IF Truthy(a) THEN a ELSE b

EmptyMap == [k \in {} |-> ""]

\* dict.get(key, default)
Get(m, k, d) == IF k \in DOMAIN m THEN m[k] ELSE d

\* dict[key] = value
Put(m, k, v) == [x \in (DOMAIN m) \cup {k} |-> IF x = k THEN v ELSE m[x]]

Char(s, i) == SubSeq(s, i, i)

IsSpace(c) == c \in {" ", "\t", "\n", "\r"}

RECURSIVE LStrip(_)
LStrip(s) ==
    IF Len(s) > 0 /\ IsSpace(Char(s, 1)) THEN LStrip(SubSeq(s, 2, Len(s))) ELSE s

RECURSIVE RStrip(_)
RStrip(s) ==
    IF Len(s) > 0 /\ IsSpace(Char(s, Len(s)))
    THEN RStrip(SubSeq(s, 1, Len(s) - 1)) ELSE s

\* str.strip()
Strip(s) == LStrip(RStrip(s))

\* str.startswith / str.endswith
StartsWith(s, p) == Len(s) >= Len(p) /\ SubSeq(s, 1, Len(p)) = p
EndsWith(s, p) == Len(s) >= Len(p) /\ SubSeq(s, Len(s) - Len(p) + 1, Len(s)) = p

\* Index of the first occurrence of character c in s, 0 if there is none.
RECURSIVE FindFrom(_, _, _)
FindFrom(s, c, i) ==
    IF i > Len(s) THEN 0
    ELSE IF Char(s, i) = c THEN i ELSE FindFrom(s, c, i + 1)

Find(s, c) == FindFrom(s, c, 1)

\* str.replace(c, r) for a single character c.
RECURSIVE Replace(_, _, _)
Replace(s, c, r) ==
    IF Len(s) = 0 THEN ""
    ELSE (IF Char(s, 1) = c THEN r ELSE Char(s, 1))
         \o Replace(SubSeq(s, 2, Len(s)), c, r)

\* Code-point order of the characters that occur in keys.
Alphabet == "-./0123456789ABCDEFGHIJKLMNOPQRSTUVWXYZ_abcdefghijklmnopqrstuvwxyz"

Rank(c) == Find(Alphabet, c)

\* Python's a < b on strings, compared from index i on.
RECURSIVE StrLessFrom(_, _, _)
StrLessFrom(a, b, i) ==
    IF i > Len(b) THEN FALSE
    ELSE IF i > Len(a) THEN TRUE
    ELSE IF Char(a, i) = Char(b, i) THEN StrLessFrom(a, b, i + 1)
    ELSE Rank(Char(a, i)) < Rank(Char(b, i))

StrLess(a, b) == StrLessFrom(a, b, 1)

\* bisect.insort: k put into the sorted sequence seq.
RECURSIVE InsertSorted(_, _)
InsertSorted(seq, k) ==
    IF seq = <<>> THEN <<k>>
    ELSE IF StrLess(k, Head(seq)) THEN <<k>> \o seq
    ELSE <<Head(seq)>> \o InsertSorted(Tail(seq), k)

\* sorted(S) for a set of strings.
RECURSIVE Sorted(_)
Sorted(S) ==
    IF S = {} THEN <<>>
    ELSE LET x == CHOOSE x \in S : TRUE
         IN  InsertSorted(Sorted(S \ {x}), x)

-----------------------------------------------------------------------------
(* The env file: _parse_env_file, _quote_env_value, _write_env_file *)

\* One line of _parse_env_file's loop, folded into the dict out.
ParseLine(out, raw) ==
    LET line == Strip(raw)
        eq   == Find(line, "=")
    IN  IF line = "" \/ StartsWith(line, "#") THEN out
        ELSE IF eq = 0 THEN out
        ELSE LET k == Strip(SubSeq(line, 1, eq - 1))
                 v == Strip(SubSeq(line, eq + 1, Len(line)))
                 quoted == \/ (StartsWith(v, "\"") /\ EndsWith(v, "\""))
                           \/ (StartsWith(v, "'") /\ EndsWith(v, "'"))
                 \* v[1:-1]
                 inner == IF Len(v) >= 2 THEN SubSeq(v, 2, Len(v) - 1) ELSE ""
             IN  Put(out, k, IF quoted THEN inner ELSE v)

RECURSIVE ParseLines(_, _)
ParseLines(out, lines) ==
    IF lines = <<>> THEN out
    ELSE ParseLines(ParseLine(out, Head(lines)), Tail(lines))

\* A missing file is the empty sequence of lines: both parse to {}.
_parse_env_file(lines) == ParseLines(EmptyMap, lines)

_quote_env_value(v) ==
    "\"" \o Replace(Replace(v, "\\", "\\\\"), "\"", "\\\"") \o "\""

\* The file patched line by line: the keys it held stay, those of values are
\* set.
WriteEnvFilePatched(values) ==
    LET old == _parse_env_file(envFile)
        merged == [k \in (DOMAIN old) \cup (DOMAIN values) |->
                      IF k \in DOMAIN values THEN values[k] ELSE old[k]]
        keys == Sorted(DOMAIN merged)
    IN  <<"# Generated by bootstrap.py",
          "# You can edit this file and re-run bootstrap.py to reuse values.",
          "">>
        \o [i \in 1..Len(keys) |-> keys[i] \o "=" \o _quote_env_value(merged[keys[i]])]

\* The lines of the file _write_env_file writes (as splitlines() reads them).
_write_env_file(values) ==
    LET keys == Sorted(DOMAIN values)
    IN  <<"# Generated by bootstrap.py",
          "# You can edit this file and re-run bootstrap.py to reuse values.",
          "">>
        \o [i \in 1..Len(keys) |-> keys[i] \o "=" \o _quote_env_value(values[keys[i]])]

-----------------------------------------------------------------------------
(* Pure helpers of the resolver *)

VALID_VIS == {"public", "private"}

NoMatch == [ok |-> FALSE, value |-> ""]

\* The tail without the optional (?:\.git)? group: a trailing .git stays.
MatchRepoTailKeepGit(t, slash) ==
    LET t1 == IF slash /\ Len(t) > 1 /\ EndsWith(t, "/")
              THEN SubSeq(t, 1, Len(t) - 1) ELSE t
    IN  IF t1 = "" \/ Find(t1, "/") # 0 THEN NoMatch
        ELSE [ok |-> TRUE, value |-> t1]

\* The tail of the three patterns, ([^/]+?)(?:\.git)?/?$ (the /? only when
\* slash is TRUE): the repository name, with one trailing "/" and one trailing
\* ".git" dropped when something is left before them.
MatchRepoTail(t, slash) ==
    LET t1 == IF slash /\ Len(t) > 1 /\ EndsWith(t, "/")
              THEN SubSeq(t, 1, Len(t) - 1) ELSE t
        t2 == IF Len(t1) > 4 /\ EndsWith(t1, ".git")
              THEN SubSeq(t1, 1, Len(t1) - 4) ELSE t1
    IN  IF t1 = "" \/ Find(t1, "/") # 0 THEN NoMatch
        ELSE [ok |-> TRUE, value |-> t2]

\* ([^/]+)/<tail> on the text after a pattern's fixed prefix.
MatchOwnerRepo(r, slash) ==
    LET i == Find(r, "/")
    IN  IF i <= 1 THEN NoMatch
        ELSE LET tail == MatchRepoTail(SubSeq(r, i + 1, Len(r)), slash)
             IN  IF tail.ok
                 THEN [ok |-> TRUE, value |-> SubSeq(r, 1, i - 1) \o "/" \o tail.value]
                 ELSE NoMatch

After(v, prefix) == SubSeq(v, Len(prefix) + 1, Len(v))

\* normalize_github_repo: [ok |-> FALSE] stands for the ValueError.
normalize_github_repo(value) ==
    LET v == Strip(value)
        https == IF StartsWith(v, "https://github.com/")
                 THEN MatchOwnerRepo(After(v, "https://github.com/"), TRUE)
                 ELSE IF StartsWith(v, "http://github.com/")
                 THEN MatchOwnerRepo(After(v, "http://github.com/"), TRUE)
                 ELSE NoMatch
        ssh   == IF StartsWith(v, "git@github.com:")
                 THEN MatchOwnerRepo(After(v, "git@github.com:"), FALSE)
                 ELSE NoMatch
        plain == MatchOwnerRepo(v, FALSE)
    IN  IF v = "" THEN [ok |-> TRUE, value |-> ""]
        ELSE IF https.ok THEN https
        ELSE IF ssh.ok THEN ssh
        ELSE plain

\* The URL chosen by membership in VALID_VIS instead of by "private".
CloneUrlByValidVis(org_repo, visibility) ==
    IF org_repo = "" THEN ""
    ELSE IF visibility \in VALID_VIS THEN "git@github.com:" \o org_repo \o ".git"
    ELSE "https://github.com/" \o org_repo \o ".git"

github_clone_url(org_repo, visibility) ==
    IF org_repo = "" THEN ""
    ELSE IF visibility = "private" THEN "git@github.com:" \o org_repo \o ".git"
    ELSE "https://github.com/" \o org_repo \o ".git"

needs_ssh_known_hosts(repo_visibility, repo_url) ==
    repo_visibility = "private" \/ (Truthy(repo_url) /\ StartsWith(repo_url, "git@"))

IsAlnum(c) == c # "" /\ Find("0123456789ABCDEFGHIJKLMNOPQRSTUVWXYZabcdefghijklmnopqrstuvwxyz", c) # 0

\* [a-zA-Z0-9\-]+ : a dash may come first.
SlugOkAnyFirst(value) ==
    /\ Len(value) > 0
    /\ \A i \in 1..Len(value) : IsAlnum(Char(value, i)) \/ Char(value, i) = "-"

\* re.fullmatch(r"[a-zA-Z0-9][a-zA-Z0-9\-]*", value)
SlugOk(value) ==
    /\ Len(value) > 0
    /\ IsAlnum(Char(value, 1))
    /\ \A i \in 2..Len(value) : IsAlnum(Char(value, i)) \/ Char(value, i) = "-"

_truthy(v) == Strip(v) \in {"true", "1", "yes", "y"}

UpperCase == "ABCDEFGHIJKLMNOPQRSTUVWXYZ"
LowerCase == "abcdefghijklmnopqrstuvwxyz"

\* str.lower()
RECURSIVE Lower(_)
Lower(s) ==
    IF Len(s) = 0 THEN ""
    ELSE LET i == Find(UpperCase, Char(s, 1))
         IN  (IF i = 0 THEN Char(s, 1) ELSE Char(LowerCase, i))
             \o Lower(SubSeq(s, 2, Len(s)))

-----------------------------------------------------------------------------
(* Paths *)

RepoRoot == "/repo"
Home == "/home/op"
Cwd == "/repo"

InRepo(rel) == RepoRoot \o "/" \o rel

IsAbsolute(p) == StartsWith(p, "/")

\* Path.expanduser()
ExpandUser(p) == IF StartsWith(p, "~/") THEN Home \o SubSeq(p, 2, Len(p)) ELSE p

\* Path.resolve(): relative paths are taken from the working directory.
Resolve(p) == IF IsAbsolute(p) THEN p ELSE Cwd \o "/" \o p

known_hosts_path == InRepo("bootstrap/generated/known_hosts")

\* os.path.relpath(path, repo_root) for a path below repo_root.
RelPath(p) ==
    IF StartsWith(p, RepoRoot \o "/") THEN After(p, RepoRoot \o "/") ELSE p

-----------------------------------------------------------------------------
(* The running process: what a module reads (ctx) and what it changes (w) *)

\* w: the part of the state a module can change.  w.exit # NoExit once
\* sys.exit was called or an exception left the module.
Ev(ev, tool, verb, obj, kctx) ==
    [ev |-> ev, tool |-> tool, verb |-> verb, obj |-> obj, ctx |-> kctx]

Emit(w, e) == [w EXCEPT !.log = Append(@, e)]

\* Context.set_env
set_env(w, key, value) ==
    Emit([w EXCEPT !.env_values = Put(@, key, value)], Ev("set", "", key, value, ""))

\* A tool invocation.  ctx is the --context / --kube-context it carries.
Cmd(w, tool, verb, obj, kctx) == Emit(w, Ev("cmd", tool, verb, obj, kctx))

Warn(w, what, obj) == Emit(w, Ev("warn", "", what, obj, ""))

Ask(w, prompt) == Emit(w, Ev("prompt", "", prompt, "", ""))

\* sys.exit(code)
Exit(w, code) == [Emit(w, Ev("exit", "", "sys.exit", "", "")) EXCEPT !.exit = code]

\* An exception nobody catches: a traceback and exit status 1.
Raise(w, what) == [Emit(w, Ev("exit", "", "exception", what, "")) EXCEPT !.exit = 1]

WriteFile(w, path, content) ==
    Emit([w EXCEPT !.files = Put(@, path, content)], Ev("write", "", path, "", ""))

\* No command given a context.
KubeCtxDropped(ctx) == ""

\* getattr(ctx.args, "kube_context", None), as the flag value a command gets.
KubeCtx(ctx) == IF Truthy(ctx.args.kube_context) THEN ctx.args.kube_context ELSE ""

\* _prompt(text, default): the answer, or the default on an empty answer.
Answer(ctx, prompt, default) ==
    LET val == Strip(Get(ctx.input, prompt, ""))
    IN  IF val # "" THEN val ELSE default

-----------------------------------------------------------------------------
(* The cluster helpers: _ensure_namespace, _apply_kube_secret *)

\* The external steps that can fail.  "no-yaml" is the yaml library missing,
\* "no-kubectl" / "no-helm" a tool missing from PATH, "unreachable" a failing
\* kubectl cluster-info; the others are one command exiting non-zero.
FaultKinds ==
    {"no-kubectl", "no-helm", "unreachable", "no-yaml", "ns-ensure",
     "secret-render", "secret-apply", "secret-label", "restart",
     "rollout-status", "keyscan", "crds-apply", "crds-wait", "helm-repo",
     "helm-install", "root-apply", "metallb-repo", "metallb-install",
     "metallb-rollout", "metallb-crd-wait", "metallb-trimmed"}

NsName(ns, name) == ns \o "/" \o name

\* What fails given the faults F: with the cluster unreachable, every command
\* that contacts it.
ClusterKinds ==
    {"ns-ensure", "secret-apply", "secret-label", "restart", "rollout-status",
     "crds-apply", "crds-wait", "helm-install", "root-apply", "metallb-install",
     "metallb-rollout", "metallb-crd-wait"}

Failing(F) == IF "unreachable" \in F THEN F \cup ClusterKinds ELSE F

\* subprocess.run of a tool that is not on PATH raises FileNotFoundError,
\* which no handler of the program catches.
Missing(F, tool) == "no-" \o tool \in F

_ensure_namespace(w, F, namespace, kctx) ==
    LET w1 == Cmd(w, "kubectl", "create-dry-run", "namespace/" \o namespace, kctx)
        w2 == Cmd(w1, "kubectl", "apply", "namespace/" \o namespace, kctx)
    IN  IF Missing(F, "kubectl") THEN Raise(w, "FileNotFoundError")
        ELSE IF "ns-ensure" \in Failing(F)
        THEN Warn(w2, "Failed ensuring namespace", namespace)
        ELSE [w2 EXCEPT !.cluster.namespaces = @ \cup {namespace}]

\* kubectl patch-like merge: keys the manifest does not name survive.
ApplySecretMerge(c, namespace, secret_name, data, labels) ==
    LET old == Get(c.secrets, <<namespace, secret_name>>,
                   [data |-> EmptyMap, labels |-> EmptyMap]).data
    IN  [c EXCEPT !.secrets = Put(@, <<namespace, secret_name>>,
             [data |-> [k \in DOMAIN old \cup DOMAIN data |->
                           IF k \in DOMAIN data THEN data[k] ELSE old[k]],
              labels |-> labels])]

\* kubectl apply of a rendered Secret manifest: the object's payload and
\* labels become the manifest's.
ApplySecretManifest(c, namespace, secret_name, data, labels) ==
    [c EXCEPT !.secrets = Put(@, <<namespace, secret_name>>,
                              [data |-> data, labels |-> labels])]

\* kubectl label secret ... --overwrite, for every requested label.
LabelSecret(c, namespace, secret_name, labels) ==
    [c EXCEPT !.secrets[<<namespace, secret_name>>].labels =
         [k \in (DOMAIN @) \cup (DOMAIN labels) |->
             IF k \in DOMAIN labels THEN labels[k] ELSE @[k]]]

\* kubectl apply of a Secret exits non-zero when the API server refuses it or
\* its namespace does not exist.
SecretApplyFails(w, F, namespace) ==
    "secret-apply" \in Failing(F) \/ namespace \notin w.cluster.namespaces

\* labels = EmptyMap stands for labels=None.
_apply_kube_secret(w, F, namespace, secret_name, data, labels, kctx) ==
    LET target == "secret/" \o NsName(namespace, secret_name)
        w1 == _ensure_namespace(w, F, namespace, kctx)
        w2 == Cmd(w1, "kubectl", "create-dry-run", target, kctx)
        \* the try body with the manifest rendered
        w3 == Cmd(w2, "kubectl", "apply", target, kctx)
        applied(x, lbl) ==
            [x EXCEPT !.cluster =
                 ApplySecretManifest(@, namespace, secret_name, data, lbl)]
        \* the except ImportError body: apply, then label the live object
        w4 == Cmd(applied(w3, EmptyMap), "kubectl", "label", target, kctx)
    IN  IF w1.exit # NoExit THEN w1
        ELSE IF "secret-render" \in F
        THEN Warn(w2, "Failed applying Secret", NsName(namespace, secret_name))
        ELSE IF labels # EmptyMap /\ "no-yaml" \in F
        THEN IF SecretApplyFails(w1, F, namespace) THEN Raise(w3, "CalledProcessError")
             ELSE IF "secret-label" \in Failing(F) THEN Raise(w4, "CalledProcessError")
             ELSE [w4 EXCEPT !.cluster =
                       LabelSecret(@, namespace, secret_name, labels)]
        ELSE IF SecretApplyFails(w1, F, namespace)
        THEN Warn(w3, "Failed applying Secret", NsName(namespace, secret_name))
        ELSE applied(w3, labels)

_apply_rfc2136_tsig_secret(w, F, namespace, secret_name, secret_key, secret_file, kctx) ==
    IF secret_file \notin DOMAIN w.files THEN w
    ELSE LET secret_value == Strip(w.files[secret_file])
         IN  IF secret_value = "" THEN w
             ELSE _apply_kube_secret(w, F, namespace, secret_name,
                                     [k \in {secret_key} |-> secret_value],
                                     EmptyMap, kctx)

-----------------------------------------------------------------------------
(* ValidationModule *)

\* Validation that reports what is missing and lets the run go on.
ValidationRunWarnOnly(ctx, w) ==
    LET F  == ctx.faults
        w1 == Cmd(w, "kubectl", "cluster-info", "", KubeCtx(ctx))
    IN  IF ctx.args.skip_validation THEN w
        ELSE IF Missing(F, "kubectl") \/ Missing(F, "helm")
        THEN Warn(w, "not found in PATH", "")
        ELSE IF "unreachable" \in F
        THEN Warn(w1, "Failed to connect to Kubernetes", "")
        ELSE w1

ValidationRun(ctx, w) ==
    LET F  == ctx.faults
        w1 == Cmd(w, "kubectl", "cluster-info", "", KubeCtx(ctx))
    IN  IF ctx.args.skip_validation THEN w
        ELSE IF Missing(F, "kubectl") THEN Exit(w, 1)
        ELSE IF Missing(F, "helm") THEN Exit(w, 1)
        ELSE IF "unreachable" \in F THEN Exit(w1, 1)
        ELSE w1

-----------------------------------------------------------------------------
(* CoreModule *)

\* _prompt_bool: "" keeps the default.
AnswerBool(ctx, prompt, default) ==
    LET val == Lower(Strip(Get(ctx.input, prompt, "")))
    IN  IF val = "" THEN default
        ELSE IF val \in {"y", "yes", "true", "1"} THEN TRUE
        ELSE IF val \in {"n", "no", "false", "0"} THEN FALSE
        ELSE default

\* _prompt_choice: an answer outside the choices is asked again; the operator
\* then gives up (end of input), which keeps the default.
AnswerChoice(ctx, prompt, choices, default) ==
    LET val == Lower(Strip(Get(ctx.input, prompt, "")))
    IN  IF val \in choices THEN val ELSE default

Interactive(ctx) == ~ctx.args.non_interactive /\ ~ctx.args.yes

\* The default path of the kubeadm environment, whatever env_name is.
KubeadmRootApp(env_name) == "gitops/clusters/kubeadm/root-app.yaml"

DefaultRootApp(env_name) == "gitops/clusters/" \o env_name \o "/root-app.yaml"

\* repo_url of CoreModule.run: computed from the values just resolved; the
\* GIT_REPO_URL of the env file (existing) is not read.
RepoUrlCached(existing, github_repo, repo_vis) ==
    Get(existing, "GIT_REPO_URL", github_clone_url(github_repo, repo_vis))

CoreRepoUrl(existing, github_repo, repo_vis) == github_clone_url(github_repo, repo_vis)

\* The values CoreModule.run holds when it reaches its set_env calls, and
\* err: the exception raised before them, "" if none.
CoreResolve(ctx) ==
    LET a == ctx.args
        existing == ctx.existing_env
        ia == Interactive(ctx)
        org0  == Get(existing, "ORG_SLUG", "aethericforge")
        env0  == Get(existing, "ENV", "kubeadm")
        ns0   == Get(existing, "ARGO_NAMESPACE", Get(existing, "ARGOCD_NAMESPACE", "argocd"))
        ar0   == _truthy(Get(existing, "APPLY_ROOT_APP", "true"))
        rap0  == Get(existing, "ROOT_APP_PATH", "")
        vis0  == Get(existing, "REPO_VISIBILITY", "public")
        repo0 == Get(existing, "GITHUB_REPO", "")
        ref0  == Get(existing, "REPO_REF", "main")
        ref1  == IF Truthy(a.repo_ref) THEN Strip(a.repo_ref) ELSE ref0
        org_slug == IF ia THEN Answer(ctx, "org", org0) ELSE org0
        env_name == IF ia THEN Answer(ctx, "env", env0) ELSE env0
        argo_ns  == IF ia THEN Answer(ctx, "argo_ns", ns0) ELSE ns0
        apply_root == IF ia THEN AnswerBool(ctx, "apply_root", ar0) ELSE ar0
        rap1 == IF ia
                THEN Answer(ctx, "root_app_path",
                            IF rap0 # "" THEN rap0 ELSE DefaultRootApp(env_name))
                ELSE rap0
        repo_vis == IF ia
                    THEN AnswerChoice(ctx, "repo_vis", VALID_VIS,
                                      IF vis0 \in VALID_VIS THEN vis0 ELSE "public")
                    ELSE vis0
        raw_repo == Answer(ctx, "repo", repo0)
        norm == IF ia /\ raw_repo # "" THEN normalize_github_repo(raw_repo)
                ELSE [ok |-> TRUE, value |-> IF ia THEN "" ELSE repo0]
        github_repo == norm.value
        repo_ref == IF ia THEN Answer(ctx, "ref", ref1) ELSE ref1
        root_app_path == IF Strip(rap1) = "" THEN DefaultRootApp(env_name) ELSE rap1
    IN  [err |-> IF ~SlugOk(org_slug) THEN "ORG_SLUG"
                 ELSE IF ~SlugOk(env_name) THEN "ENV"
                 ELSE IF ~norm.ok THEN "GITHUB_REPO"
                 ELSE "",
         ORG_SLUG |-> org_slug, ENV |-> env_name, ARGO_NAMESPACE |-> argo_ns,
         APPLY_ROOT_APP |-> IF apply_root THEN "true" ELSE "false",
         ROOT_APP_PATH |-> root_app_path, REPO_VISIBILITY |-> repo_vis,
         GITHUB_REPO |-> github_repo, REPO_REF |-> repo_ref,
         GIT_REPO_URL |-> CoreRepoUrl(existing, github_repo, repo_vis)]

CoreKeys ==
    <<"ORG_SLUG", "ENV", "ARGO_NAMESPACE", "APPLY_ROOT_APP", "ROOT_APP_PATH",
      "REPO_VISIBILITY", "GITHUB_REPO", "REPO_REF", "GIT_REPO_URL">>

CorePrompts ==
    <<"org", "env", "argo_ns", "apply_root", "root_app_path", "repo_vis", "repo", "ref">>

RECURSIVE AskAll(_, _)
AskAll(w, prompts) ==
    IF prompts = <<>> THEN w ELSE AskAll(Ask(w, Head(prompts)), Tail(prompts))

RECURSIVE SetAll(_, _, _)
SetAll(w, keys, r) ==
    IF keys = <<>> THEN w
    ELSE SetAll(set_env(w, Head(keys), r[Head(keys)]), Tail(keys), r)

\* How many prompts were shown before the exception err left the module.
AskedBefore(err) ==
    IF err = "ORG_SLUG" THEN 1 ELSE IF err = "ENV" THEN 2
    ELSE IF err = "GITHUB_REPO" THEN 7 ELSE 8

CoreRun(ctx, w) ==
    LET r  == CoreResolve(ctx)
        w1 == IF Interactive(ctx)
              THEN AskAll(w, SubSeq(CorePrompts, 1, AskedBefore(r.err)))
              ELSE w
        \* the message of _validate_slug: the field and {value!r}
        got == IF r.err \in {"ORG_SLUG", "ENV"} THEN " Got: '" \o r[r.err] \o "'" ELSE ""
    IN  IF r.err # "" THEN Raise(w1, "ValueError " \o r.err \o got)
        ELSE SetAll(w1, CoreKeys, r)

-----------------------------------------------------------------------------
(* SSHModule *)

\* What ssh-keyscan prints for github.com.
KeyscanOutput == "github.com ssh-ed25519 AAAA"

HomeKey(name) == Home \o "/.ssh/" \o name

Exists(w, path) == path \in DOMAIN w.files

\* generate_known_hosts inside SSHModule.run's try: a failed scan ends the run.
generate_known_hosts(w, F) ==
    LET w1 == Cmd(w, "ssh-keyscan", "keyscan", "github.com", "")
    IN  IF "keyscan" \in F THEN Exit(w1, 2)
        ELSE WriteFile(w1, known_hosts_path, KeyscanOutput)

RepoLabels == [k \in {"argocd.argoproj.io/secret-type"} |-> "repository"]

\* The last part of SSHModule.run: the repository Secret and the restart.
SSHApply(ctx, w, ssh_key_file, repo_ssh_secret_name, repo_url) ==
    LET F == ctx.faults
        kctx == KubeCtx(ctx)
        ssh_key_content == Strip(w.files[ssh_key_file])
        kh_content ==
            IF ~ctx.args.no_known_hosts /\ Exists(w, known_hosts_path)
            THEN Strip(w.files[known_hosts_path]) ELSE ""
        base == [k \in {"type", "url", "sshPrivateKey"} |->
                    IF k = "type" THEN "git"
                    ELSE IF k = "url" THEN repo_url ELSE ssh_key_content]
        data == IF kh_content # "" THEN Put(base, "sshKnownHosts", kh_content) ELSE base
        argo_ns == Get(w.env_values, "ARGO_NAMESPACE", "argocd")
        w1 == _apply_kube_secret(w, F, argo_ns, repo_ssh_secret_name, data,
                                 RepoLabels, kctx)
        deploy == NsName(argo_ns, "argocd-repo-server")
        w2 == Cmd(w1, "kubectl", "rollout-restart", deploy, kctx)
        w3 == Cmd(w2, "kubectl", "rollout-status", deploy, kctx)
    IN  IF w1.exit # NoExit THEN w1
        ELSE IF Missing(F, "kubectl") THEN Raise(w1, "FileNotFoundError")
        ELSE IF "restart" \in Failing(F)
                \/ <<argo_ns, "argocd-repo-server">> \notin w1.cluster.deployments
        THEN Warn(w2, "Failed restarting argocd-repo-server", deploy)
        ELSE IF "rollout-status" \in Failing(F)
        THEN Warn(w3, "Failed restarting argocd-repo-server", deploy)
        ELSE w3

\* The host keys scanned on every run, the cache never reused.
SSHKnownHostsAlways(ctx, w) ==
    IF ctx.args.no_known_hosts THEN w
    ELSE LET w1 == generate_known_hosts(w, ctx.faults)
         IN  IF w1.exit # NoExit THEN w1
             ELSE set_env(w1, "SSH_KNOWN_HOSTS_FILE", known_hosts_path)

\* The known_hosts part of SSHModule.run.
SSHKnownHosts(ctx, w) ==
    IF ctx.args.no_known_hosts THEN w
    ELSE IF ~ctx.args.refresh_known_hosts /\ Exists(w, known_hosts_path)
            /\ w.files[known_hosts_path] # ""
    THEN set_env(w, "SSH_KNOWN_HOSTS_FILE", known_hosts_path)
    ELSE LET w1 == generate_known_hosts(w, ctx.faults)
         IN  IF w1.exit # NoExit THEN w1
             ELSE set_env(w1, "SSH_KNOWN_HOSTS_FILE", known_hosts_path)

SSHRun(ctx, w) ==
    LET a == ctx.args
        repo_vis == Get(w.env_values, "REPO_VISIBILITY", None)
        repo_url == Get(w.env_values, "GIT_REPO_URL", None)
        key0 == Strip(Or(a.ssh_key_file, Get(ctx.existing_env, "SSH_PRIVATE_KEY_FILE", "")))
        name0 == Strip(Or(a.repo_ssh_secret,
                          Get(ctx.existing_env, "REPO_SSH_SECRET_NAME", "repo-git-ssh")))
        repo_ssh_secret_name == IF name0 # "" THEN name0 ELSE "repo-git-ssh"
        default_key == IF Exists(w, HomeKey("id_ed25519")) THEN HomeKey("id_ed25519")
                       ELSE HomeKey("id_rsa")
        asked == key0 = "" /\ ~a.non_interactive
        key1 == IF asked
                THEN Answer(ctx, "ssh_key",
                            IF Exists(w, default_key) THEN default_key ELSE "")
                ELSE key0
        w1 == IF asked THEN Ask(w, "ssh_key") ELSE w
        p == ExpandUser(key1)
        ssh_key_file == Resolve(p)
        w2 == IF key1 = "" THEN w1
              ELSE set_env(set_env(w1, "SSH_PRIVATE_KEY_FILE", ssh_key_file),
                           "REPO_SSH_SECRET_NAME", repo_ssh_secret_name)
        w3 == SSHKnownHosts(ctx, w2)
    IN  IF ~needs_ssh_known_hosts(repo_vis, repo_url) THEN w
        ELSE IF key0 = "" /\ a.non_interactive THEN Exit(w, 2)
        ELSE IF key1 # "" /\ ~Exists(w, p) THEN Exit(w1, 2)
        ELSE IF w3.exit # NoExit THEN w3
        ELSE IF key1 = "" THEN w3
        ELSE SSHApply(ctx, w3, ssh_key_file, repo_ssh_secret_name, repo_url)

-----------------------------------------------------------------------------
(* CloudflareModule *)

\* A duplicate wherever a duplicate namespace is named, the primary included.
DupNamed(dup_ns, secret_ns) == dup_ns # ""

\* if dup_ns and dup_ns != secret_ns
DupWanted(dup_ns, secret_ns) == dup_ns # "" /\ dup_ns # secret_ns

CloudflareRun(ctx, w) ==
    LET a == ctx.args
        existing == ctx.existing_env
        F == ctx.faults
        kctx == KubeCtx(ctx)
        token_file0 == Strip(Or(a.cloudflare_token_file,
                                Get(existing, "CLOUDFLARE_API_TOKEN_FILE", "")))
        name0 == Strip(Or(a.cloudflare_secret_name,
                          Get(existing, "CLOUDFLARE_API_TOKEN_SECRET_NAME",
                              "cloudflare-api-token")))
        secret_name == IF name0 # "" THEN name0 ELSE "cloudflare-api-token"
        ns0 == Strip(Or(a.cloudflare_secret_namespace,
                        Get(existing, "CLOUDFLARE_API_TOKEN_SECRET_NAMESPACE",
                            "cert-manager")))
        secret_ns == IF ns0 # "" THEN ns0 ELSE "cert-manager"
        dup_arg == a.cloudflare_token_duplicate_namespace
        dup_was_set == dup_arg # None
                       \/ "CLOUDFLARE_API_TOKEN_DUPLICATE_NAMESPACE" \in DOMAIN existing
        dup_ns == IF dup_arg # None THEN dup_arg
                  ELSE Strip(Get(existing, "CLOUDFLARE_API_TOKEN_DUPLICATE_NAMESPACE", ""))
        p == ExpandUser(token_file0)
        token_file == Resolve(p)
        w1 == set_env(set_env(set_env(w, "CLOUDFLARE_API_TOKEN_FILE", token_file),
                              "CLOUDFLARE_API_TOKEN_SECRET_NAME", secret_name),
                      "CLOUDFLARE_API_TOKEN_SECRET_NAMESPACE", secret_ns)
        w2 == IF dup_was_set
              THEN set_env(w1, "CLOUDFLARE_API_TOKEN_DUPLICATE_NAMESPACE", dup_ns)
              ELSE w1
        token == Strip(w.files[p])
        data == [k \in {"api-token"} |-> token]
        w3 == _apply_kube_secret(w2, F, secret_ns, secret_name, data, EmptyMap, kctx)
    IN  IF token_file0 = "" THEN w
        ELSE IF ~Exists(w, p) THEN Exit(w, 2)
        ELSE IF token = "" THEN Exit(w2, 2)
        ELSE IF w3.exit # NoExit THEN w3
        ELSE IF DupWanted(dup_ns, secret_ns)
        THEN _apply_kube_secret(w3, F, dup_ns, secret_name, data, EmptyMap, kctx)
        ELSE w3

-----------------------------------------------------------------------------
(* RFC2136Module: one definition, instantiated with prefix "" and "cm-" *)

\* self.prefix.replace("-", "_") and self.env_prefix of the two instances.
ArgPrefix(prefix) == Replace(prefix, "-", "_")
\* One key prefix for both instances.
EnvPrefixShared(prefix) == ""

EnvPrefix(prefix) == IF prefix = "cm-" THEN "CM_" ELSE ""

\* getattr(args, f"{p}<name>")
Arg(ctx, prefix, name) == ctx.args[ArgPrefix(prefix) \o name]

\* The text _emit_bind9_snippet writes.
Bind9Snippet(zone, keyname, algorithm, secret_b64, policy) ==
    "key \"" \o keyname \o "\" { algorithm " \o algorithm \o "; secret \""
    \o secret_b64 \o "\"; }; zone \"" \o zone \o "\" { update-policy { "
    \o policy \o " }; };"

\* A secret file treated as missing whether it is there or not.
SecretFileStale(w, secret_path) == TRUE

\* if not secret_path.exists()
SecretFileAbsent(w, secret_path) == ~Exists(w, secret_path)

\* The Generate stage: the secret path in use, its spelling for the env file,
\* and the files afterwards.  fresh is what _generate_tsig_secret_base64
\* returns if it is called.
RFC2136Generate(ctx, w, prefix, secret_file_raw0, fresh) ==
    LET path == ExpandUser(secret_file_raw0)
        given == IF IsAbsolute(path) THEN path ELSE Resolve(InRepo(path))
        fname == IF prefix = "" THEN "rfc2136-tsig.secret"
                 ELSE prefix \o "rfc2136-tsig.secret"
        default == Resolve(InRepo("bootstrap/inputs/" \o fname))
        generate == Arg(ctx, prefix, "rfc2136_tsig_generate")
        secret_path == IF secret_file_raw0 # "" THEN given
                       ELSE IF generate THEN default ELSE None
        raw == IF secret_file_raw0 = "" /\ generate THEN RelPath(default)
               ELSE secret_file_raw0
    IN  [secret_path |-> secret_path, secret_file_raw |-> raw,
         w |-> IF generate /\ SecretFileAbsent(w, secret_path)
               THEN WriteFile(w, secret_path, fresh) ELSE w]

\* The snippet written whatever inputs are missing.
RFC2136EmitAlways(ctx, w, prefix, zone, keyname, alg, secret_path) ==
    LET fname == IF prefix = "" THEN "rfc2136-tsig.conf"
                 ELSE prefix \o "rfc2136-tsig.conf"
        out_path == Resolve(InRepo("bootstrap/generated/bind9/" \o fname))
        secret == IF secret_path # None /\ Exists(w, secret_path)
                  THEN Strip(w.files[secret_path]) ELSE ""
    IN  IF ~Arg(ctx, prefix, "emit_bind9_snippet") THEN w
        ELSE WriteFile(w, out_path,
                       Bind9Snippet(zone, keyname, alg, secret,
                                    "grant " \o keyname \o " zonesub ANY;"))

\* The Emit BIND9 stage.
RFC2136Emit(ctx, w, prefix, zone, keyname, alg, secret_path) ==
    LET fname == IF prefix = "" THEN "rfc2136-tsig.conf"
                 ELSE prefix \o "rfc2136-tsig.conf"
        out_path == Resolve(InRepo("bootstrap/generated/bind9/" \o fname))
        policy == IF prefix = "cm-"
                  THEN "grant " \o keyname \o " name _acme-challenge.*." \o zone \o ". TXT;"
                  ELSE "grant " \o keyname \o " zonesub ANY;"
    IN  IF ~Arg(ctx, prefix, "emit_bind9_snippet") THEN w
        ELSE IF ~(zone # "" /\ keyname # "" /\ alg # "" /\ secret_path # None
                  /\ Exists(w, secret_path))
        THEN Warn(w, "Missing inputs for BIND snippet", prefix)
        ELSE WriteFile(w, out_path,
                       Bind9Snippet(zone, keyname, alg, Strip(w.files[secret_path]), policy))

\* The Apply K8s Secret stage.
RFC2136Apply(ctx, w, prefix, secret_path) ==
    LET existing == ctx.existing_env
        cm == prefix = "cm-"
        ns == IF cm THEN "cert-manager"
              ELSE Strip(Get(existing, "RFC2136_TSIG_SECRET_NAMESPACE", "external-dns-internal"))
        name == IF cm THEN "rfc2136-tsig"
                ELSE Strip(Get(existing, "RFC2136_TSIG_SECRET_NAME", "rfc2136-tsig"))
        key == IF cm THEN "tsig-secret"
               ELSE Strip(Get(existing, "RFC2136_TSIG_SECRET_KEY", "tsig-secret"))
    IN  IF Arg(ctx, prefix, "apply_rfc2136_tsig_secret") /\ secret_path # None
           /\ Exists(w, secret_path)
        THEN _apply_rfc2136_tsig_secret(w, ctx.faults, ns, name, key, secret_path,
                                        KubeCtx(ctx))
        ELSE w

\* The Set Env Values stage.
RFC2136SetEnv(ctx, w, prefix, host, port, zone, keyname, alg, secret_file_raw) ==
    LET ep == EnvPrefix(prefix)
        was_set == \/ Arg(ctx, prefix, "rfc2136_host") # None
                   \/ Arg(ctx, prefix, "rfc2136_zone") # None
                   \/ Arg(ctx, prefix, "rfc2136_tsig_keyname") # None
                   \/ Arg(ctx, prefix, "rfc2136_tsig_alg") # None
                   \/ Arg(ctx, prefix, "rfc2136_tsig_secret_file") # None
                   \/ Arg(ctx, prefix, "rfc2136_tsig_generate")
                   \/ (ep \o "RFC2136_HOST") \in DOMAIN ctx.existing_env
        set(x, key, value) == IF value # "" THEN set_env(x, ep \o key, value) ELSE x
    IN  IF ~was_set THEN w
        ELSE set(set(set(set(set(set(w, "RFC2136_HOST", host),
                                     "RFC2136_PORT", port),
                                 "RFC2136_ZONE", zone),
                             "RFC2136_TSIG_KEYNAME", keyname),
                         "RFC2136_TSIG_ALG", alg),
                     "RFC2136_TSIG_SECRET_FILE", secret_file_raw)

RFC2136Run(ctx, w, prefix, fresh) ==
    LET existing == ctx.existing_env
        ep == EnvPrefix(prefix)
        val(name, key, default) ==
            Strip(Or(Arg(ctx, prefix, name), Get(existing, ep \o key, default)))
        host == val("rfc2136_host", "RFC2136_HOST", "")
        zone == val("rfc2136_zone", "RFC2136_ZONE", "")
        keyname == val("rfc2136_tsig_keyname", "RFC2136_TSIG_KEYNAME", "")
        alg == val("rfc2136_tsig_alg", "RFC2136_TSIG_ALG", "")
        secret_file_raw0 == val("rfc2136_tsig_secret_file", "RFC2136_TSIG_SECRET_FILE", "")
        \* hasattr(args, f"{p}rfc2136_port"): only the cm- instance adds --cm-rfc2136-port
        port == IF prefix = "cm-" THEN val("rfc2136_port", "RFC2136_PORT", "5335") ELSE ""
        g == RFC2136Generate(ctx, w, prefix, secret_file_raw0, fresh)
        w1 == RFC2136Emit(ctx, g.w, prefix, zone, keyname, alg, g.secret_path)
        w2 == RFC2136Apply(ctx, w1, prefix, g.secret_path)
    IN  IF w2.exit # NoExit THEN w2
        ELSE RFC2136SetEnv(ctx, w2, prefix, host, port, zone, keyname, alg,
                           g.secret_file_raw)

-----------------------------------------------------------------------------
(* ArgoCDModule *)

\* The CRDs the cert-manager manifest defines.
CertManagerCrds == {"certificates.cert-manager.io", "issuers.cert-manager.io"}

_install_cm_crds(ctx, w, version, mode) ==
    LET F == ctx.faults
        kctx == KubeCtx(ctx)
        w1 == _ensure_namespace(w, F, "cert-manager", kctx)
        \* mode == "release"
        r1 == Cmd(w1, "kubectl", "apply", "cert-manager.crds.yaml@" \o version, kctx)
        \* mode == "helm-template"
        t1 == Cmd(w1, "helm", "repo-add", "jetstack", "")
        t2 == Cmd(Cmd(t1, "helm", "repo-update", "", ""), "helm", "template",
                  "jetstack/cert-manager", "")
        t3 == Cmd(t2, "kubectl", "apply", "cert-manager-crds", kctx)
        known == mode \in {"release", "helm-template"}
        sent == IF mode = "release" THEN r1 ELSE IF mode = "helm-template" THEN t3 ELSE w1
        w2 == IF known THEN [sent EXCEPT !.cluster.crds = @ \cup CertManagerCrds] ELSE sent
        w3 == Cmd(w2, "kubectl", "get-crd", "", kctx)
        cm_crds == {c \in w3.cluster.crds : EndsWith(c, ".cert-manager.io")}
        w4 == Cmd(w3, "kubectl", "wait", "cert-manager-crds", kctx)
    IN  IF w1.exit # NoExit THEN w1
        ELSE IF mode = "helm-template" /\ Missing(F, "helm")
        THEN Raise(w1, "FileNotFoundError")
        ELSE IF mode = "helm-template" /\ "helm-repo" \in F
        THEN Raise(t1, "CalledProcessError")
        ELSE IF known /\ "crds-apply" \in Failing(F)
        THEN Raise(sent, "CalledProcessError")
        ELSE IF "unreachable" \in F THEN Raise(w3, "CalledProcessError")
        ELSE IF cm_crds = {} THEN w3
        ELSE IF "crds-wait" \in Failing(F) THEN Raise(w4, "CalledProcessError")
        ELSE w4

\* The values files _install_argo passes, in order, when they exist.
ValuesFiles(w, org_slug, env_name) ==
    SelectSeq(<<InRepo("bootstrap/argocd/values.yaml"),
                InRepo("bootstrap/argocd/values." \o org_slug \o ".yaml"),
                InRepo("bootstrap/argocd/values." \o env_name \o ".yaml")>>,
              LAMBDA f : Exists(w, f))

_install_argo(ctx, w, version) ==
    LET F == ctx.faults
        kctx == KubeCtx(ctx)
        argo_ns == Get(w.env_values, "ARGO_NAMESPACE", "argocd")
        w1 == Cmd(w, "helm", "repo-add", "argo", "")
        w2 == Cmd(w1, "helm", "repo-update", "", "")
        w3 == _ensure_namespace(w2, F, argo_ns, kctx)
        values == ValuesFiles(w, Get(w.env_values, "ORG_SLUG", None),
                              Get(w.env_values, "ENV", None))
        w4 == Cmd(w3, "helm", "upgrade-install", NsName(argo_ns, "argocd"), kctx)
    IN  IF Missing(F, "helm") THEN Raise(w, "FileNotFoundError")
        ELSE IF "helm-repo" \in F THEN Raise(w1, "CalledProcessError")
        ELSE IF w3.exit # NoExit THEN w3
        ELSE IF "helm-install" \in Failing(F) THEN Raise(w4, "CalledProcessError")
        ELSE [w4 EXCEPT
                !.cluster.releases =
                    Put(@, <<argo_ns, "argocd">>,
                        [chart |-> "argo/argo-cd", version |-> version,
                         values |-> values]),
                \* --create-namespace, and the chart's repo-server deployment
                !.cluster.namespaces = @ \cup {argo_ns},
                !.cluster.deployments = @ \cup {<<argo_ns, "argocd-repo-server">>}]

\* Any non-empty manifest taken to hold a resource.
NonEmptyManifest(content) == content # ""

\* re.search(r"kind:\s*\S+", content)
HasKind(content) ==
    \E i \in 1..(Len(content) - 4) :
        /\ SubSeq(content, i, i + 4) = "kind:"
        /\ LStrip(SubSeq(content, i + 5, Len(content))) # ""

_apply_root_app(ctx, w) ==
    LET root_app_path == Get(w.env_values, "ROOT_APP_PATH", "")
        \* repo_root / root_app_path: an absolute path replaces repo_root
        p == IF IsAbsolute(root_app_path) THEN root_app_path ELSE InRepo(root_app_path)
        w1 == Cmd(w, "kubectl", "apply", p, KubeCtx(ctx))
    IN  IF root_app_path = "" THEN w
        ELSE IF ~Exists(w, p) THEN Exit(w, 1)
        ELSE IF ~HasKind(w.files[p]) THEN w
        ELSE IF Missing(ctx.faults, "kubectl") THEN Raise(w, "FileNotFoundError")
        ELSE IF "root-apply" \in Failing(ctx.faults) THEN Raise(w1, "CalledProcessError")
        ELSE [w1 EXCEPT !.cluster.applied = @ \cup {p}]

\* The root app applied first and Argo CD installed after it.
ArgoCDRunRootFirst(ctx, w) ==
    LET a == ctx.args
        w1 == IF Get(w.env_values, "APPLY_ROOT_APP", None) = "true"
              THEN _apply_root_app(ctx, w) ELSE w
        w2 == _install_cm_crds(ctx, w1, "v1.14.4", "release")
    IN  IF w1.exit # NoExit \/ a.skip_argo_install THEN w1
        ELSE IF w2.exit # NoExit THEN w2
        ELSE _install_argo(ctx, w2, "7.7.12")

ArgoCDRun(ctx, w) ==
    LET a == ctx.args
        existing == ctx.existing_env
        argo_version == Strip(Or(a.argo_version, Get(existing, "ARGO_HELM_CHART_VERSION", "7.7.12")))
        cm_version == Strip(Or(a.cm_crds_version, Get(existing, "CERT_MANAGER_VERSION", "v1.14.4")))
        cm_mode == Strip(Or(a.cm_crds_mode, Get(existing, "CERT_MANAGER_CRDS_MODE", "release")))
        w1 == set_env(set_env(set_env(w, "ARGO_HELM_CHART_VERSION", argo_version),
                              "CERT_MANAGER_VERSION", cm_version),
                      "CERT_MANAGER_CRDS_MODE", cm_mode)
        w2 == _install_cm_crds(ctx, w1, cm_version, cm_mode)
        w3 == IF a.skip_argo_install THEN w1
              ELSE IF w2.exit # NoExit THEN w2
              ELSE _install_argo(ctx, w2, argo_version)
    IN  IF w3.exit # NoExit THEN w3
        ELSE IF Get(w3.env_values, "APPLY_ROOT_APP", None) = "true"
        THEN _apply_root_app(ctx, w3)
        ELSE w3

-----------------------------------------------------------------------------
(* MetalLBModule *)

MetalLBCrds ==
    <<"ipaddresspools.metallb.io", "bgppeers.metallb.io",
      "bgpadvertisements.metallb.io", "l2advertisements.metallb.io",
      "communities.metallb.io", "bfdprofiles.metallb.io">>

\* The CRDs the installed chart brings: all six, or a trimmed feature set.
ChartCrds(F) ==
    IF "metallb-trimmed" \in F
    THEN {"ipaddresspools.metallb.io", "l2advertisements.metallb.io"}
    ELSE {MetalLBCrds[i] : i \in 1..Len(MetalLBCrds)}

\* Every CRD of the list taken to be there.
CrdAssumed(ctx, w, crd) == TRUE

\* kubectl get crd <crd> exits 0
CrdExists(ctx, w, crd) == crd \in w.cluster.crds /\ "unreachable" \notin ctx.faults

\* The loop over crds: a get for each, a wait for each that exists.
RECURSIVE WaitCrds(_, _, _)
WaitCrds(ctx, w, crds) ==
    IF crds = <<>> \/ w.exit # NoExit THEN w
    ELSE LET crd == Head(crds)
             w1 == Cmd(w, "kubectl", "get-crd", crd, KubeCtx(ctx))
             w2 == Cmd(w1, "kubectl", "wait", "crd/" \o crd, KubeCtx(ctx))
             exists == CrdExists(ctx, w, crd)
         IN  IF ~exists THEN WaitCrds(ctx, w1, Tail(crds))
             ELSE IF "metallb-crd-wait" \in Failing(ctx.faults)
             THEN Raise(w2, "CalledProcessError")
             ELSE WaitCrds(ctx, w2, Tail(crds))

MetalLBRun(ctx, w) ==
    LET a == ctx.args
        F == ctx.faults
        kctx == KubeCtx(ctx)
        val(arg, key, default) == Strip(Or(arg, Get(ctx.existing_env, key, default)))
        or(v, default) == IF v # "" THEN v ELSE default
        ns == or(val(a.metallb_namespace, "METALLB_NAMESPACE", "metallb-system"),
                 "metallb-system")
        release == or(val(a.metallb_release, "METALLB_RELEASE", "metallb"), "metallb")
        repo == val(a.metallb_chart_repo, "METALLB_CHART_REPO",
                    "https://metallb.github.io/metallb")
        chart == or(val(a.metallb_chart, "METALLB_CHART", "metallb/metallb"),
                    "metallb/metallb")
        version == or(val(a.metallb_chart_version, "METALLB_CHART_VERSION", "0.14.5"),
                      "0.14.5")
        w1 == set_env(set_env(set_env(set_env(set_env(set_env(w,
                  "METALLB_ENABLED", "true"), "METALLB_NAMESPACE", ns),
                  "METALLB_RELEASE", release), "METALLB_CHART_REPO", repo),
                  "METALLB_CHART", chart), "METALLB_CHART_VERSION", version)
        w2 == Cmd(w1, "kubectl", "cluster-info", "", kctx)
        w3 == _ensure_namespace(w2, F, ns, kctx)
        w4 == Cmd(w3, "helm", "repo-add", "metallb", kctx)
        w5 == Cmd(w4, "helm", "repo-update", "", kctx)
        w6 == Cmd(w5, "helm", "upgrade-install", NsName(ns, release), kctx)
        w7 == [w6 EXCEPT
                 !.cluster.releases =
                     Put(@, <<ns, release>>,
                         [chart |-> chart, version |-> version, values |-> <<>>]),
                 !.cluster.deployments = @ \cup {<<ns, "metallb-controller">>},
                 !.cluster.crds = @ \cup ChartCrds(F)]
        w8 == Cmd(w7, "kubectl", "rollout-status", NsName(ns, "metallb-controller"), kctx)
    IN  IF ~a.with_metallb THEN w
        ELSE IF Missing(F, "kubectl") THEN Raise(w1, "FileNotFoundError")
        ELSE IF "unreachable" \in F THEN Raise(w2, "CalledProcessError")
        ELSE IF w3.exit # NoExit THEN w3
        ELSE IF Missing(F, "helm") THEN Raise(w3, "FileNotFoundError")
        ELSE IF "metallb-install" \in Failing(F) THEN Raise(w6, "CalledProcessError")
        ELSE IF "metallb-rollout" \in Failing(F) THEN Raise(w8, "CalledProcessError")
        ELSE WaitCrds(ctx, w8, MetalLBCrds)

-----------------------------------------------------------------------------
(* main *)

\* The modules list of main, in order.  The two RFC2136Module instances are
\* named by their prefix.
\* The list with SSH registered ahead of Core.
ModulesSSHBeforeCore ==
    <<"Validation", "SSH", "Core", "Cloudflare", "RFC2136", "CM_RFC2136",
      "ArgoCD", "MetalLB">>

Modules ==
    <<"Validation", "Core", "SSH", "Cloudflare", "RFC2136", "CM_RFC2136",
      "ArgoCD", "MetalLB">>

Aborted == 0
Persisting == Len(Modules) + 1
Done == Len(Modules) + 2

\* What _generate_tsig_secret_base64 can return.
TsigSecrets == {"c2VjcmV0QQ==", "c2VjcmV0Qg=="}

\* The env file main reads and rewrites.
env_path(a) ==
    IF Truthy(a.env_name) THEN InRepo("bootstrap/env/" \o a.env_name \o ".env")
    ELSE IF Truthy(a.env_file) THEN Resolve(a.env_file)
    ELSE InRepo("bootstrap/env/kubeadm.env")

Ctx == [args |-> args, existing_env |-> existing_env, input |-> input,
        faults |-> faults]

World == [env_values |-> env_values, files |-> files, cluster |-> cluster,
          log |-> log, exit |-> NoExit]

\* One turn of main's loop, for m in modules: m.run(ctx).  An exit or an
\* exception inside the module ends the process there.
Step(name, w) ==
    /\ env_values' = w.env_values
    /\ files' = w.files
    /\ cluster' = w.cluster
    /\ log' = w.log
    /\ exitCode' = w.exit
    /\ pc' = IF w.exit # NoExit THEN Aborted ELSE pc + 1
    /\ UNCHANGED <<args, faults, input, existing_env, envFile, run, after, call>>

At(name) == pc \in 1..Len(Modules) /\ Modules[pc] = name

Started(name) == Emit(World, Ev("start", "", name, "", ""))

RunValidation ==
    At("Validation") /\ Step("Validation", ValidationRun(Ctx, Started("Validation")))

RunCore ==
    At("Core") /\ Step("Core", CoreRun(Ctx, Started("Core")))

RunSSH ==
    At("SSH") /\ Step("SSH", SSHRun(Ctx, Started("SSH")))

RunCloudflare ==
    At("Cloudflare") /\ Step("Cloudflare", CloudflareRun(Ctx, Started("Cloudflare")))

RunRFC2136 ==
    /\ At("RFC2136")
    /\ \E fresh \in TsigSecrets :
           Step("RFC2136", RFC2136Run(Ctx, Started("RFC2136"), "", fresh))

RunCMRFC2136 ==
    /\ At("CM_RFC2136")
    /\ \E fresh \in TsigSecrets :
           Step("CM_RFC2136", RFC2136Run(Ctx, Started("CM_RFC2136"), "cm-", fresh))

RunArgoCD ==
    At("ArgoCD") /\ Step("ArgoCD", ArgoCDRun(Ctx, Started("ArgoCD")))

RunMetalLB ==
    At("MetalLB") /\ Step("MetalLB", MetalLBRun(Ctx, Started("MetalLB")))

\* After the loop: _write_env_file(env_path, ctx.env_values), the summary,
\* return 0.
Persist ==
    /\ pc = Persisting
    /\ envFile' = _write_env_file(env_values)
    /\ log' = Append(log, Ev("write", "", env_path(args), "", ""))
    /\ exitCode' = 0
    /\ pc' = Done
    /\ UNCHANGED <<args, faults, input, existing_env, env_values, files,
                   cluster, run, after, call>>

\* The same command line is run again: a new process, a new Context read from
\* the env file as it is now.
Rerun ==
    /\ pc \in {Done, Aborted}
    /\ run < MaxRuns
    /\ run' = run + 1
    /\ after' = [cluster |-> cluster, files |-> files, envFile |-> envFile,
                 env_values |-> env_values, exit |-> exitCode]
    /\ existing_env' = _parse_env_file(envFile)
    /\ env_values' = EmptyMap
    /\ log' = <<>>
    /\ exitCode' = NoExit
    /\ pc' = 1
    /\ UNCHANGED <<args, faults, input, envFile, files, cluster, call>>

-----------------------------------------------------------------------------
(* Initial states: a command line, an env file, local files, an environment *)

\* parse_args() of an empty command line.
BaseArgs ==
    [non_interactive |-> FALSE, yes |-> FALSE, kube_context |-> None,
     env_file |-> None, env_name |-> None, skip_validation |-> FALSE,
     repo_ref |-> None,
     no_known_hosts |-> FALSE, refresh_known_hosts |-> FALSE,
     ssh_key_file |-> None, repo_ssh_secret |-> None,
     cloudflare_token_file |-> None, cloudflare_secret_name |-> None,
     cloudflare_secret_namespace |-> None,
     cloudflare_token_duplicate_namespace |-> None,
     no_cloudflare_token_duplicate |-> FALSE,
     rfc2136_host |-> None, rfc2136_zone |-> None,
     rfc2136_tsig_keyname |-> None, rfc2136_tsig_alg |-> None,
     rfc2136_tsig_secret_file |-> None, rfc2136_tsig_generate |-> FALSE,
     emit_bind9_snippet |-> FALSE, apply_rfc2136_tsig_secret |-> FALSE,
     cm_rfc2136_host |-> None, cm_rfc2136_port |-> None, cm_rfc2136_zone |-> None,
     cm_rfc2136_tsig_keyname |-> None, cm_rfc2136_tsig_alg |-> None,
     cm_rfc2136_tsig_secret_file |-> None, cm_rfc2136_tsig_generate |-> FALSE,
     cm_emit_bind9_snippet |-> FALSE, cm_apply_rfc2136_tsig_secret |-> FALSE,
     argo_version |-> None, skip_argo_install |-> FALSE,
     cm_crds_version |-> None, cm_crds_mode |-> None,
     with_metallb |-> FALSE, metallb_namespace |-> None,
     metallb_release |-> None, metallb_chart_version |-> None,
     metallb_chart_repo |-> None, metallb_chart |-> None]

\* BaseArgs with the options opts, a set of <<dest, value>> pairs.
WithArgs(opts) ==
    [f \in DOMAIN BaseArgs |->
        IF \E o \in opts : o[1] = f
        THEN (CHOOSE o \in opts : o[1] = f)[2] ELSE BaseArgs[f]]

\* The lines of seq whose index is in S, in order.
Pick(seq, S) ==
    LET F[i \in 0..Len(seq)] ==
            IF i = 0 THEN <<>>
            ELSE IF i \in S THEN Append(F[i - 1], seq[i]) ELSE F[i - 1]
    IN  F[Len(seq)]

MapOf(pairs) ==
    [k \in {p[1] : p \in pairs} |-> (CHOOSE p \in pairs : p[1] = k)[2]]

EmptyCluster ==
    [namespaces |-> {}, secrets |-> EmptyMap, releases |-> EmptyMap,
     applied |-> {}, deployments |-> {}, crds |-> {}]

\* No call of _apply_kube_secret on its own has been made.
NoCall == [hist |-> <<>>, before |-> EmptyCluster]

KeyFile == "/keys/id_ed25519"

\* Local files every initial state has: an SSH key and root-app manifests.
BaseFilePairs ==
    {<<KeyFile, "PRIVATE-KEY">>,
     <<InRepo(DefaultRootApp("kubeadm")), "kind: Application">>,
     <<InRepo(DefaultRootApp("prod")), "kind: Application">>}

BaseFiles == MapOf(BaseFilePairs)

InitWith(a, lines, fs, flt, inp) ==
    /\ args = a
    /\ faults = flt
    /\ input = inp
    /\ envFile = lines
    /\ existing_env = _parse_env_file(lines)
    /\ env_values = EmptyMap
    /\ files = fs
    /\ cluster = EmptyCluster
    /\ log = <<>>
    /\ pc = 1
    /\ exitCode = NoExit
    /\ run = 1
    /\ after = [cluster |-> EmptyCluster, files |-> fs, envFile |-> lines,
                env_values |-> EmptyMap, exit |-> NoExit]
    /\ call = NoCall

\* Command-line options, env-file lines and failures of the runs explored.
ArgOptions ==
    {<<"non_interactive", TRUE>>, <<"skip_validation", TRUE>>,
     <<"env_name", "staging">>, <<"repo_ref", "v2">>,
     <<"ssh_key_file", KeyFile>>}

EnvLineOptions ==
    <<"ENV=prod", "REPO_VISIBILITY=\"private\"", "GITHUB_REPO=\"acme/widgets\"",
      "GIT_REPO_URL=\"https://github.com/old/name.git\"">>

CommandFaults ==
    {"no-kubectl", "no-helm", "unreachable", "ns-ensure", "secret-apply",
     "restart", "keyscan", "helm-install"}

FaultSets ==
    {f \cup y : f \in {{}} \cup {{k} : k \in CommandFaults},
                y \in {{}, {"no-yaml"}}}

InputOptions ==
    {EmptyMap, MapOf({<<"org", "-bad">>}),
     MapOf({<<"repo", "https://github.com/acme/widgets.git">>})}

\* Answers are given only where somebody is asked.
Inputs(a) == IF a.non_interactive THEN {EmptyMap} ELSE InputOptions

Init ==
    \E opts \in SUBSET ArgOptions, S \in SUBSET (1..Len(EnvLineOptions)),
       flt \in FaultSets :
        \E inp \in Inputs(WithArgs(opts)) :
            InitWith(WithArgs(opts), Pick(EnvLineOptions, S), BaseFiles, flt, inp)

Next ==
    \/ RunValidation
    \/ RunCore
    \/ RunSSH
    \/ RunCloudflare
    \/ RunRFC2136
    \/ RunCMRFC2136
    \/ RunArgoCD
    \/ RunMetalLB
    \/ Persist

Spec == Init /\ [][Next]_vars

-----------------------------------------------------------------------------
(* The same command line run again *)

SecretFile == "/keys/tsig.secret"

RerunArgOptions ==
    {<<"rfc2136_tsig_secret_file", SecretFile>>,
     <<"apply_rfc2136_tsig_secret", TRUE>>,
     <<"rfc2136_tsig_generate", TRUE>>,
     <<"ssh_key_file", KeyFile>>,
     <<"with_metallb", TRUE>>}

RerunEnvLineOptions ==
    <<"RFC2136_TSIG_SECRET_NAMESPACE=\"custom-dns\"", "RFC2136_HOST=\"\"",
      "RFC2136_ZONE=\"example.org\"", "REPO_VISIBILITY=\"private\"",
      "GITHUB_REPO=\"acme/widgets\"">>

RerunFiles == Put(BaseFiles, SecretFile, "c2VjcmV0Qw==")

InitRerun ==
    \E opts \in SUBSET RerunArgOptions,
       S \in SUBSET (1..Len(RerunEnvLineOptions)),
       flt \in {{}, {"restart"}, {"helm-install"}} :
        InitWith(WithArgs(opts \cup {<<"non_interactive", TRUE>>}),
                 Pick(RerunEnvLineOptions, S), RerunFiles, flt, EmptyMap)

NextRerun ==
    \/ RunValidation
    \/ RunCore
    \/ RunSSH
    \/ RunCloudflare
    \/ RunRFC2136
    \/ RunCMRFC2136
    \/ RunArgoCD
    \/ RunMetalLB
    \/ Persist
    \/ Rerun

SpecRerun == InitRerun /\ [][NextRerun]_vars

-----------------------------------------------------------------------------
(* _apply_kube_secret called on its own, several times in a row *)

InHelper == Done + 1

SecretPayloads ==
    {MapOf({<<"token", "A">>, <<"extra", "x">>}), MapOf({<<"token", "B">>})}

SecretNames == {"repo-git-ssh", "cloudflare-api-token"}

SecretFaults == {"ns-ensure", "secret-render", "secret-apply", "secret-label", "no-yaml"}

\* Clusters the calls start from: empty, or with the namespace and an older
\* Secret of another payload already there.
SecretClusters ==
    {EmptyCluster,
     [EmptyCluster EXCEPT !.namespaces = {"argocd"}],
     [EmptyCluster EXCEPT
         !.namespaces = {"argocd"},
         !.secrets = MapOf({<<<<"argocd", "repo-git-ssh">>,
                              [data |-> MapOf({<<"old", "o">>}), labels |-> EmptyMap]>>})]}

InitSecret ==
    \E flt \in SUBSET SecretFaults, c \in SecretClusters :
        /\ args = BaseArgs
        /\ faults = flt
        /\ input = EmptyMap
        /\ envFile = <<>>
        /\ existing_env = EmptyMap
        /\ env_values = EmptyMap
        /\ files = BaseFiles
        /\ cluster = c
        /\ log = <<>>
        /\ pc = InHelper
        /\ exitCode = NoExit
        /\ run = 1
        /\ after = [cluster |-> c, files |-> BaseFiles, envFile |-> <<>>,
                    env_values |-> EmptyMap, exit |-> NoExit]
        /\ call = NoCall

\* One call of _apply_kube_secret; log holds what this call did.  A call
\* that raised ended the process: no call follows it.
CallApplyKubeSecret ==
    /\ pc = InHelper
    /\ exitCode = NoExit
    /\ Len(call.hist) < MaxCalls
    /\ \E name \in SecretNames, data \in SecretPayloads,
          labels \in {EmptyMap, RepoLabels} :
           LET w == _apply_kube_secret([World EXCEPT !.log = <<>>], faults,
                                       "argocd", name, data, labels, KubeCtx(Ctx))
           IN  /\ cluster' = w.cluster
               /\ log' = w.log
               /\ exitCode' = w.exit
               /\ call' = [hist |-> Append(call.hist,
                                [namespace |-> "argocd", secret_name |-> name,
                                 data |-> data, labels |-> labels]),
                           before |-> cluster]
    /\ UNCHANGED <<args, faults, input, existing_env, env_values, envFile,
                   files, pc, run, after>>

NextSecret == CallApplyKubeSecret

SpecSecret == InitSecret /\ [][NextSecret]_vars

-----------------------------------------------------------------------------
(* Runs that exercise one module's options at a time *)

Scenario(a, lines, fs, flt, inp) ==
    [args |-> a, lines |-> lines, files |-> fs, faults |-> flt, input |-> inp]

NonInteractive(opts) == WithArgs(opts \cup {<<"non_interactive", TRUE>>})

\* Core: identities and the root-app path from the env file or the operator.
CoreLineOptions ==
    <<"ORG_SLUG=\"-bad\"", "ORG_SLUG=abc-123", "ENV=\"\"", "ENV=dev",
      "ROOT_APP_PATH=\"custom/root.yaml\"", "ROOT_APP_PATH=\"  \"">>

CoreInputOptions ==
    {EmptyMap, MapOf({<<"org", "-bad">>}), MapOf({<<"org", "abc-123">>}),
     MapOf({<<"env", "bad_env">>}), MapOf({<<"env", "dev">>}),
     MapOf({<<"root_app_path", "mine/root.yaml">>})}

CoreScenarios ==
    {Scenario(WithArgs(opts), Pick(CoreLineOptions, S), BaseFiles, {}, inp) :
        opts \in {{}, {<<"non_interactive", TRUE>>}, {<<"yes", TRUE>>}},
        S \in SUBSET (1..Len(CoreLineOptions)),
        inp \in CoreInputOptions}

\* ArgoCD: the root-app manifest with a resource, as a placeholder, empty,
\* with a bare "kind:", or missing.
ManifestContents ==
    {"kind: Application", "# placeholder", "", "kind: \n", None}

ManifestFiles(content) ==
    IF content = None THEN MapOf({<<KeyFile, "PRIVATE-KEY">>})
    ELSE MapOf({<<KeyFile, "PRIVATE-KEY">>,
                <<InRepo(DefaultRootApp("kubeadm")), content>>})

ArgoScenarios ==
    {Scenario(NonInteractive(opts), Pick(<<"APPLY_ROOT_APP=false">>, S),
              ManifestFiles(c), flt, EmptyMap) :
        opts \in SUBSET {<<"skip_argo_install", TRUE>>},
        S \in SUBSET {1},
        c \in ManifestContents,
        flt \in {{}, {"root-apply"}, {"helm-install"}}}

\* Cloudflare: the token file given, empty or missing; the duplicate namespace.
TokenFile == "/keys/cf.token"
EmptyTokenFile == "/keys/cf.empty"
MissingTokenFile == "/keys/cf.missing"

CloudflareFiles ==
    Put(Put(BaseFiles, TokenFile, "cf-token\n"), EmptyTokenFile, " \n")

\* --cloudflare-token-duplicate-namespace and --no-cloudflare-token-duplicate
\* are one mutually exclusive group: a command line holds at most one of them.
CloudflareArgOptions ==
    {{<<"cloudflare_token_file", f>> : f \in fs} \cup dup :
        fs \in {{}, {TokenFile}, {EmptyTokenFile}, {MissingTokenFile}},
        dup \in {{}, {<<"no_cloudflare_token_duplicate", TRUE>>}}
                \cup {{<<"cloudflare_token_duplicate_namespace", d>>} :
                          d \in {"", "cert-manager", "external-dns"}}}

CloudflareLineOptions ==
    <<"CLOUDFLARE_API_TOKEN_FILE=\"/keys/cf.token\"",
      "CLOUDFLARE_API_TOKEN_DUPLICATE_NAMESPACE=\"external-dns\"">>

CloudflareScenarios ==
    {Scenario(NonInteractive(opts), Pick(CloudflareLineOptions, S),
              CloudflareFiles, flt, EmptyMap) :
        opts \in CloudflareArgOptions,
        S \in SUBSET (1..Len(CloudflareLineOptions)),
        flt \in {{}, {"secret-apply"}}}

\* MetalLB: requested or not, and what can fail on the way.
MetalLBFaultSets ==
    {{}, {"metallb-repo"}, {"metallb-trimmed"}, {"metallb-repo", "metallb-trimmed"},
     {"ns-ensure"}, {"metallb-install"}, {"metallb-rollout"}, {"metallb-crd-wait"}}

MetalLBScenarios ==
    {Scenario(NonInteractive(opts), Pick(<<"METALLB_ENABLED=true",
                                           "METALLB_NAMESPACE=lb-system">>, S),
              BaseFiles, flt, EmptyMap) :
        opts \in SUBSET {<<"with_metallb", TRUE>>, <<"metallb_namespace", "lb">>},
        S \in SUBSET (1..2),
        flt \in MetalLBFaultSets}

\* SSH: a private repository; the key given, persisted, conventional or
\* absent; the known_hosts cache missing, empty or filled.
CachedKnownHosts == "github.com ssh-rsa OLD"

SSHFiles ==
    {MapOf(BaseFilePairs \cup keys \cup cache) :
        keys \in {{}, {<<HomeKey("id_ed25519"), "HOME-ED-KEY">>},
                  {<<HomeKey("id_rsa"), "HOME-RSA-KEY">>}},
        cache \in {{}, {<<known_hosts_path, "">>},
                   {<<known_hosts_path, CachedKnownHosts>>}}}

SSHLineOptions ==
    <<"REPO_VISIBILITY=\"private\"", "GITHUB_REPO=\"acme/widgets\"",
      "SSH_PRIVATE_KEY_FILE=\"/keys/id_ed25519\"">>

SSHScenarios ==
    {Scenario(WithArgs(opts), Pick(SSHLineOptions, {1, 2} \cup S), fs, flt, EmptyMap) :
        opts \in SUBSET {<<"non_interactive", TRUE>>, <<"ssh_key_file", KeyFile>>,
                         <<"no_known_hosts", TRUE>>, <<"refresh_known_hosts", TRUE>>},
        S \in SUBSET {3},
        fs \in SSHFiles,
        flt \in {{}, {"keyscan"}}}

\* The repository identity: persisted or entered, in each accepted shape.
RepoShapes ==
    {"acme/widgets", "https://github.com/acme/widgets.git",
     "git@github.com:acme/widgets.git"}

RepoScenarios ==
    {Scenario(WithArgs(mode), <<"GITHUB_REPO=\"" \o r \o "\"">>, BaseFiles, {},
              MapOf(answer)) :
        mode \in {{}, {<<"non_interactive", TRUE>>}, {<<"yes", TRUE>>}},
        r \in RepoShapes,
        answer \in {{}} \cup {{<<"repo", e>>} : e \in RepoShapes}}

\* The two RFC2136 instances: the stages asked for, the inputs of the
\* snippet given or not, the secret file given, there or not.
TsigStageOptions(p) ==
    {<<p \o "rfc2136_tsig_generate", TRUE>>, <<p \o "emit_bind9_snippet", TRUE>>,
     <<p \o "apply_rfc2136_tsig_secret", TRUE>>}

TsigInputOptions(p) ==
    {<<p \o "rfc2136_zone", "example.org">>, <<p \o "rfc2136_tsig_keyname", "ddns">>,
     <<p \o "rfc2136_tsig_alg", "hmac-sha256">>,
     <<p \o "rfc2136_tsig_secret_file", SecretFile>>}

TsigFiles == {BaseFiles, Put(BaseFiles, SecretFile, "c2VjcmV0Qw==\n")}

RFC2136Scenarios ==
    {Scenario(NonInteractive(stages \cup inputs), <<>>, fs, {}, EmptyMap) :
        stages \in UNION {SUBSET TsigStageOptions(p) : p \in {"", "cm_"}},
        inputs \in UNION {SUBSET TsigInputOptions(p) : p \in {"", "cm_"}},
        fs \in TsigFiles}

\* Both instances asked for every stage in one run.
BothTsigScenarios ==
    {Scenario(NonInteractive(TsigStageOptions("") \cup TsigStageOptions("cm_")
                             \cup inputs \cup cminputs),
              <<>>, fs, {}, EmptyMap) :
        inputs \in {TsigInputOptions(""),
                    TsigInputOptions("") \ {<<"rfc2136_tsig_secret_file", SecretFile>>}},
        cminputs \in {{}, TsigInputOptions("cm_")
                          \ {<<"cm_rfc2136_tsig_secret_file", SecretFile>>}},
        fs \in TsigFiles}

\* --kube-context given, empty or absent, in a run in which every module
\* has something to do in the cluster.
EveryModuleOptions ==
    {<<"ssh_key_file", KeyFile>>, <<"cloudflare_token_file", TokenFile>>,
     <<"cloudflare_token_duplicate_namespace", "external-dns">>,
     <<"rfc2136_tsig_generate", TRUE>>, <<"apply_rfc2136_tsig_secret", TRUE>>,
     <<"cm_rfc2136_tsig_generate", TRUE>>, <<"cm_apply_rfc2136_tsig_secret", TRUE>>,
     <<"with_metallb", TRUE>>}

ContextScenarios ==
    {Scenario(NonInteractive(EveryModuleOptions \cup kc \cup mode),
              <<"REPO_VISIBILITY=\"private\"", "GITHUB_REPO=\"acme/widgets\"">>,
              CloudflareFiles, flt, EmptyMap) :
        kc \in {{}, {<<"kube_context", "">>}, {<<"kube_context", "prod-cluster">>}},
        mode \in {{}, {<<"cm_crds_mode", "helm-template">>}},
        flt \in {{}, {"no-yaml"}, {"metallb-trimmed"}}}

\* Prompting switched off by --yes, by --non-interactive or by both, for a
\* private repository whose key is persisted or not; what the operator would
\* type if asked.
YesScenarios ==
    {Scenario(WithArgs(mode), Pick(SSHLineOptions, {1, 2} \cup S), fs, {},
              MapOf(answer)) :
        mode \in (SUBSET {<<"yes", TRUE>>, <<"non_interactive", TRUE>>}) \ {{}},
        S \in SUBSET {3},
        fs \in SSHFiles,
        answer \in {{}, {<<"ssh_key", KeyFile>>}}}

Scenarios ==
    CoreScenarios \cup ArgoScenarios \cup CloudflareScenarios \cup MetalLBScenarios
    \cup SSHScenarios \cup RepoScenarios \cup RFC2136Scenarios \cup BothTsigScenarios
    \cup ContextScenarios \cup YesScenarios

InitModules ==
    \E sc \in Scenarios :
        InitWith(sc.args, sc.lines, sc.files, sc.faults, sc.input)

SpecModules == InitModules /\ [][Next]_vars

-----------------------------------------------------------------------------
(* The pure helpers called on their own: normalize_github_repo, github_clone_url *)

Owners == {"acme", "a-b"}
RepoNames == {"widgets", "my.repo"}

\* The accepted spellings of owner/repo.
RepoForms ==
    {"plain", "plain.git", "https", "https.git", "https/", "http", "ssh", "ssh.git"}

Spell(owner, repo, form) ==
    LET r == owner \o "/" \o repo
    IN  IF form = "plain" THEN r
        ELSE IF form = "plain.git" THEN r \o ".git"
        ELSE IF form = "https" THEN "https://github.com/" \o r
        ELSE IF form = "https.git" THEN "https://github.com/" \o r \o ".git"
        ELSE IF form = "https/" THEN "https://github.com/" \o r \o "/"
        ELSE IF form = "http" THEN "http://github.com/" \o r
        ELSE IF form = "ssh" THEN "git@github.com:" \o r
        ELSE "git@github.com:" \o r \o ".git"

\* Inputs of none of the three shapes.
Unrecognized ==
    {"widgets", "acme/widgets/extra", "/widgets", "acme/",
     "https://github.com/acme", "https://github.com/acme/widgets/tree/main",
     "https://gitlab.com/acme/widgets", "git@github.com:widgets",
     "ssh://git@github.com/acme/widgets.git"}

RepoInputs ==
    {[owner |-> o, repo |-> r, form |-> f, value |-> Spell(o, r, f)] :
        o \in Owners, r \in RepoNames, f \in RepoForms}
    \cup {[owner |-> "", repo |-> "", form |-> "none", value |-> v] :
              v \in Unrecognized}

OrgRepos == {"", "acme/widgets", "a-b/my.repo"}
Visibilities == {"public", "private", "internal", "", "Private"}

InitPure ==
    \E ri \in RepoInputs, org_repo \in OrgRepos, visibility \in Visibilities :
        /\ args = BaseArgs
        /\ faults = {}
        /\ input = [repo |-> ri, org_repo |-> org_repo, visibility |-> visibility]
        /\ envFile = <<>>
        /\ existing_env = EmptyMap
        /\ env_values = EmptyMap
        /\ files = BaseFiles
        /\ cluster = EmptyCluster
        /\ log = <<>>
        /\ pc = InHelper
        /\ exitCode = NoExit
        /\ run = 1
        /\ after = [cluster |-> EmptyCluster, files |-> BaseFiles, envFile |-> <<>>,
                    env_values |-> EmptyMap, exit |-> NoExit]
        /\ call = NoCall

Returned(fn) == \E i \in 1..Len(log) : log[i].ev = "return" /\ log[i].tool = fn

\* normalize_github_repo(input.repo.value): the value returned, or the
\* ValueError raised.
CallNormalize ==
    /\ pc = InHelper
    /\ ~Returned("normalize_github_repo")
    /\ LET r == normalize_github_repo(input.repo.value)
       IN  log' = Append(log, Ev("return", "normalize_github_repo",
                                 IF r.ok THEN "value" ELSE "ValueError", r.value, ""))
    /\ UNCHANGED <<args, faults, input, existing_env, env_values, envFile,
                   files, cluster, pc, exitCode, run, after, call>>

\* github_clone_url(input.org_repo, input.visibility)
CallCloneUrl ==
    /\ pc = InHelper
    /\ ~Returned("github_clone_url")
    /\ log' = Append(log, Ev("return", "github_clone_url", "value",
                             github_clone_url(input.org_repo, input.visibility), ""))
    /\ UNCHANGED <<args, faults, input, existing_env, env_values, envFile,
                   files, cluster, pc, exitCode, run, after, call>>

NextPure ==
    \/ CallNormalize
    \/ CallCloneUrl

SpecPure == InitPure /\ [][NextPure]_vars

-----------------------------------------------------------------------------
(* Reading the log *)

IsStart(e) == e.ev = "start"

\* The modules started so far, in order.
StartedModules ==
    LET starts == SelectSeq(log, IsStart)
    IN  [i \in 1..Len(starts) |-> starts[i].verb]

HasStarted(name) == \E i \in 1..Len(log) : log[i] = Ev("start", "", name, "", "")

\* The module during which log[i] was written.
ModuleOf(i) ==
    LET s == CHOOSE j \in 1..i :
                 IsStart(log[j]) /\ \A k \in (j + 1)..i : ~IsStart(log[k])
    IN  log[s].verb

\* The indices of what module name did: everything it logged after starting,
\* main's own write of the env file after the loop apart.
ActionsOf(name) ==
    {i \in 1..Len(log) :
        /\ ~IsStart(log[i])
        /\ log[i] # Ev("write", "", env_path(args), "", "")
        /\ ModuleOf(i) = name}

\* The run left module name behind: it returned, or the process ended in it.
Left(name) ==
    /\ HasStarted(name)
    /\ \/ pc = Aborted
       \/ pc = Done
       \/ pc = Persisting
       \/ (pc \in 1..Len(Modules) /\ StartedModules[Len(StartedModules)] # name)
       \/ (pc \in 1..Len(Modules) /\ Modules[pc] # name)

PrerequisiteFaults == {"no-kubectl", "no-helm", "unreachable"}

-----------------------------------------------------------------------------
(* C2 *)

\* C2: whenever a run ends, completed or aborted, every resolved value it
\* accumulated is in the env file.
C2_PersistedDespiteFailure ==
    pc \in {Done, Aborted} =>
        \A k \in DOMAIN env_values :
            Get(_parse_env_file(envFile), k, None) = env_values[k]

-----------------------------------------------------------------------------
(* C3 *)

Untouched ==
    /\ env_values = EmptyMap
    /\ cluster = EmptyCluster
    /\ files = after.files
    /\ StartedModules \in {<<>>, <<"Validation">>}

\* C3 as stated: with kubectl or helm missing or the cluster unreachable, the
\* run ends in Validation with nothing resolved, written or mutated, and no
\* later module starts.
C3_ValidationGatesEveryRun ==
    faults \cap PrerequisiteFaults # {} =>
        /\ Untouched
        /\ pc \in {1, Aborted}

\* C3 amended: the same, for every run without --skip-validation.
C3_ValidationGatesMutation ==
    (faults \cap PrerequisiteFaults # {} /\ ~args.skip_validation) =>
        /\ Untouched
        /\ pc \in {1, Aborted}
        /\ pc = Aborted => exitCode # 0 /\ exitCode # NoExit

C3_Witness ==
    /\ "unreachable" \in faults
    /\ ~args.skip_validation
    /\ pc = Aborted
    /\ \E i \in 1..Len(log) : log[i].ev = "cmd" /\ log[i].verb = "cluster-info"

-----------------------------------------------------------------------------
(* C4 *)

RecoverableFaults == {"ns-ensure", "secret-apply", "restart", "rollout-status"}

FailedCommand(e) ==
    /\ e.ev = "cmd"
    /\ \/ "ns-ensure" \in faults /\ e.verb = "apply" /\ StartsWith(e.obj, "namespace/")
       \/ "secret-apply" \in faults /\ e.verb = "apply" /\ StartsWith(e.obj, "secret/")
       \/ "restart" \in faults /\ e.verb = "rollout-restart"

\* C4: nothing is logged after a fatal failure, and a failing namespace
\* ensure, secret apply or restart is followed by a warning, not by the end
\* of the process: the module it happened in and the later ones still run.
C4_FatalVersusRecoverable ==
    /\ \A i \in 1..Len(log) : log[i].ev = "exit" => (i = Len(log) /\ pc = Aborted)
    /\ \A i \in 1..Len(log) :
           (FailedCommand(log[i]) /\ (pc = Aborted \/ i < Len(log))) =>
               (i < Len(log) /\ log[i + 1].ev = "warn")

-----------------------------------------------------------------------------
(* C5 *)

ClaimedOrder ==
    <<"Validation", "Core", "SSH", "Cloudflare", "RFC2136", "CM_RFC2136",
      "ArgoCD", "MetalLB">>

\* C5: the modules started so far are a prefix of Validation, Core, SSH,
\* Cloudflare, RFC2136 (external-dns), RFC2136 (cert-manager), ArgoCD, MetalLB
\* (each at most once, none before its predecessor returned), a completed
\* run has started all eight, and once SSH or ArgoCD has started, Core has
\* set every value it resolves.
C5_FixedSequentialOrder ==
    /\ Len(StartedModules) <= Len(ClaimedOrder)
    /\ StartedModules = SubSeq(ClaimedOrder, 1, Len(StartedModules))
    /\ pc \in {Persisting, Done} => StartedModules = ClaimedOrder
    /\ pc \in 1..Len(ClaimedOrder) => Len(StartedModules) = pc - 1
    /\ (HasStarted("SSH") \/ HasStarted("ArgoCD")) =>
           {CoreKeys[i] : i \in 1..Len(CoreKeys)} \subseteq DOMAIN env_values

C5_Witness ==
    pc = Done /\ StartedModules = ClaimedOrder /\ ActionsOf("SSH") # {}

-----------------------------------------------------------------------------
(* C6 *)

Override(flag, persisted, default) ==
    IF Truthy(flag) THEN flag ELSE Get(existing_env, persisted, default)

\* C6: in a run without interactive input, once Core has run, the environment
\* name is the --env-name override if given, else the persisted ENV, else
\* kubeadm; and the ref is the --ref override if given, else the persisted
\* REPO_REF, else main.
C6_Precedence ==
    (args.non_interactive /\ Left("Core") /\ "ENV" \in DOMAIN env_values) =>
        /\ env_values["ENV"] = Override(args.env_name, "ENV", "kubeadm")
        /\ env_values["REPO_REF"] = Override(args.repo_ref, "REPO_REF", "main")

-----------------------------------------------------------------------------
(* C7 *)

StaleUrls == {"https://github.com/old/name.git", "git@github.com:old/name.git"}

WithoutKey(m, key) == [k \in DOMAIN m \ {key} |-> m[k]]

\* C7: once Core has run, GIT_REPO_URL is github_clone_url of the GITHUB_REPO
\* and REPO_VISIBILITY resolved in this run, and when Core returns, the same
\* run started from an env file with any other GIT_REPO_URL, or none,
\* resolves the same URL.
C7_CloneUrlNeverStale ==
    "GIT_REPO_URL" \in DOMAIN env_values =>
        /\ env_values["GIT_REPO_URL"] =
               github_clone_url(env_values["GITHUB_REPO"], env_values["REPO_VISIBILITY"])
        /\ pc = 3 =>
               \A e \in {Put(existing_env, "GIT_REPO_URL", u) : u \in StaleUrls}
                        \cup {WithoutKey(existing_env, "GIT_REPO_URL")} :
                   CoreResolve([Ctx EXCEPT !.existing_env = e]).GIT_REPO_URL
                       = env_values["GIT_REPO_URL"]

C7_Witness ==
    /\ "GIT_REPO_URL" \in DOMAIN env_values
    /\ "GIT_REPO_URL" \in DOMAIN existing_env
    /\ env_values["GIT_REPO_URL"] # existing_env["GIT_REPO_URL"]
    /\ env_values["GIT_REPO_URL"] # ""

-----------------------------------------------------------------------------
(* C10 *)

\* C10: unless the resolved visibility is private and the resolved clone URL
\* is in SSH form, the SSH module does nothing: it logs no action and the run
\* does not end in it.
C10_SSHNoOp ==
    (HasStarted("SSH")
     /\ ~(env_values["REPO_VISIBILITY"] = "private"
          /\ StartsWith(env_values["GIT_REPO_URL"], "git@"))) =>
        ActionsOf("SSH") = {}

-----------------------------------------------------------------------------
(* C1 *)

\* C1: when the same command line is run a second time after a run that
\* completed, the second run completes too and leaves the cluster, the local
\* files and the env file exactly as the first run left them.
C1_RerunConverges ==
    (run = 2 /\ after.exit = 0) =>
        /\ pc # Aborted
        /\ pc = Done =>
               /\ cluster = after.cluster
               /\ files = after.files
               /\ envFile = after.envFile

-----------------------------------------------------------------------------
(* C8 *)

LastCall == call.hist[Len(call.hist)]

SecretOf(c, k) == c.secrets[<<k.namespace, k.secret_name>>]

\* The call returned without a warning and without raising.
CallSucceeded ==
    /\ Len(call.hist) >= 1
    /\ exitCode = NoExit
    /\ \A i \in 1..Len(log) : log[i].ev # "warn"

\* C8: a call of _apply_kube_secret that succeeds leaves the Secret's payload
\* equal to the data of that call, whatever the Secret held before, with the
\* requested labels on it and every other Secret as it was; and a call with
\* the arguments of the call before it leaves the cluster as that call left
\* it.
C8_SecretApplyIdempotent ==
    /\ CallSucceeded =>
           /\ <<LastCall.namespace, LastCall.secret_name>> \in DOMAIN cluster.secrets
           /\ SecretOf(cluster, LastCall).data = LastCall.data
           /\ \A l \in DOMAIN LastCall.labels :
                  /\ l \in DOMAIN SecretOf(cluster, LastCall).labels
                  /\ SecretOf(cluster, LastCall).labels[l] = LastCall.labels[l]
           /\ \A k \in DOMAIN call.before.secrets :
                  k # <<LastCall.namespace, LastCall.secret_name>> =>
                      /\ k \in DOMAIN cluster.secrets
                      /\ cluster.secrets[k] = call.before.secrets[k]
    /\ (Len(call.hist) >= 2 /\ LastCall = call.hist[Len(call.hist) - 1]) =>
           cluster = call.before

\* A Secret with an older payload is replaced by a call, and the call is then
\* repeated.
C8_Witness ==
    /\ Len(call.hist) = 3
    /\ CallSucceeded
    /\ call.hist[1].secret_name = call.hist[2].secret_name
    /\ call.hist[1].data # call.hist[2].data
    /\ ~(DOMAIN call.hist[1].data \subseteq DOMAIN call.hist[2].data)
    /\ call.hist[2] = call.hist[3]
    /\ SecretOf(cluster, LastCall).data = LastCall.data

-----------------------------------------------------------------------------
(* C9 *)

CallLogged(verb, prefix) ==
    \E i \in 1..Len(log) :
        log[i].ev = "cmd" /\ log[i].verb = verb /\ StartsWith(log[i].obj, prefix)

\* C9: whatever fails inside a call of _apply_kube_secret (the namespace
\* ensure, the render, the apply), with or without labels and with or
\* without the YAML library, the call returns normally, having logged a
\* warning; and after a failed namespace ensure the render and the apply
\* are still attempted.
C9_SecretApplyNeverFatal ==
    Len(call.hist) >= 1 =>
        /\ exitCode = NoExit
        /\ faults \cap {"ns-ensure", "secret-render", "secret-apply"} # {} =>
               \E i \in 1..Len(log) : log[i].ev = "warn"
        /\ ("ns-ensure" \in faults /\ "secret-render" \notin faults) =>
               /\ CallLogged("create-dry-run", "secret/")
               /\ CallLogged("apply", "secret/")

-----------------------------------------------------------------------------
(* C14 *)

ReturnOf(fn) == log[CHOOSE i \in 1..Len(log) : log[i].ev = "return" /\ log[i].tool = fn]

-----------------------------------------------------------------------------
(* C15 *)

\* C15: github_clone_url returns "" for an empty org_repo, the
\* git@github.com:<org_repo>.git form when org_repo is non-empty and the
\* visibility is private, and https://github.com/<org_repo>.git for every
\* other visibility; whatever else was called before, the result is the same.
C15_CloneUrlDerivation ==
    Returned("github_clone_url") =>
        ReturnOf("github_clone_url").obj =
            (IF input.org_repo = "" THEN ""
             ELSE IF input.visibility = "private"
             THEN "git@github.com:" \o input.org_repo \o ".git"
             ELSE "https://github.com/" \o input.org_repo \o ".git")

C15_Witness ==
    /\ Returned("github_clone_url")
    /\ Returned("normalize_github_repo")
    /\ input.org_repo = "acme/widgets"
    /\ input.visibility = "private"
    /\ ReturnOf("github_clone_url").obj = "git@github.com:acme/widgets.git"

-----------------------------------------------------------------------------
(* C11 *)

RootAppManifest == InRepo(env_values["ROOT_APP_PATH"])

RootApplyIssued ==
    \E i \in ActionsOf("ArgoCD") :
        /\ log[i].ev = "cmd"
        /\ log[i].tool = "kubectl"
        /\ log[i].verb = "apply"
        /\ log[i].obj = RootAppManifest

\* "kind:", any white space, then a character that is not white space.
KindMarker(content) ==
    \E i \in 1..Len(content), j \in 1..Len(content) :
        /\ i + 4 < j
        /\ \A k \in 0..4 : Char(content, i + k) = Char("kind:", k + 1)
        /\ \A k \in (i + 5)..(j - 1) : IsSpace(Char(content, k))
        /\ ~IsSpace(Char(content, j))

\* The ArgoCD module got as far as its root-app step.
ReachedRootApp ==
    /\ Left("ArgoCD")
    /\ \/ args.skip_argo_install
       \/ <<env_values["ARGO_NAMESPACE"], "argocd">> \in DOMAIN cluster.releases

RootAppWanted ==
    /\ env_values["APPLY_ROOT_APP"] = "true"
    /\ RootAppManifest \in DOMAIN files

\* C11: the ArgoCD module issues the root-app apply only if APPLY_ROOT_APP is
\* true, the manifest exists and its content has a kind marker, and it does
\* issue it whenever these hold and the module reaches that step; with the
\* flag true and a manifest without a kind marker it issues no apply and
\* ends without error, and the run goes on to the next module.
C11_RootAppApply ==
    HasStarted("ArgoCD") =>
        /\ RootApplyIssued =>
               (RootAppWanted /\ KindMarker(files[RootAppManifest]))
        /\ (ReachedRootApp /\ RootAppWanted /\ KindMarker(files[RootAppManifest])) =>
               RootApplyIssued
        /\ (ReachedRootApp /\ RootAppWanted /\ ~KindMarker(files[RootAppManifest])) =>
               /\ ~RootApplyIssued
               /\ \A i \in ActionsOf("ArgoCD") : log[i].ev \notin {"exit", "warn"}
               /\ pc # Aborted

\* A placeholder manifest was skipped and the run completed.
C11_Witness ==
    /\ pc = Done
    /\ ReachedRootApp
    /\ RootAppWanted
    /\ files[RootAppManifest] = "# placeholder"
    /\ ~RootApplyIssued
    /\ ~args.skip_argo_install

-----------------------------------------------------------------------------
(* C12 *)

\* The run ended on a configuration or validation error or a missing
\* prerequisite: a sys.exit of a module, or a rejected slug or repository.
EndedOnConfigError ==
    /\ pc = Aborted
    /\ \/ log[Len(log)].verb = "sys.exit"
       \/ /\ log[Len(log)].verb = "exception"
          /\ Len(log[Len(log)].obj) >= 10
          /\ SubSeq(log[Len(log)].obj, 1, 10) = "ValueError"

\* C12: a run ends with exit code 0 only if every module completed and the
\* env file was written, and with exit code 2 whenever it ends on a
\* configuration or validation error or a missing prerequisite.
C12_ExitCodes ==
    /\ exitCode = 0 => (pc = Done /\ Left(Modules[Len(Modules)]))
    /\ EndedOnConfigError => exitCode = 2

-----------------------------------------------------------------------------
(* C13 *)

Alnum == "0123456789ABCDEFGHIJKLMNOPQRSTUVWXYZabcdefghijklmnopqrstuvwxyz"

\* An alphanumeric character followed by alphanumerics or dashes.
IdentityShape(v) ==
    /\ v # ""
    /\ Find(Alnum, Char(v, 1)) # 0
    /\ \A i \in 2..Len(v) : Find(Alnum \o "-", Char(v, i)) # 0

\* The value of an identity field this run resolves: the answer to its
\* prompt when the run prompts and the answer is not blank, else the
\* persisted value, else the default.
ResolvedIdentity(key, prompt, default) ==
    LET persisted == Get(existing_env, key, default)
        answer == Strip(Get(input, prompt, ""))
    IN  IF ~args.non_interactive /\ ~args.yes /\ answer # "" THEN answer
        ELSE persisted

ResolvedOrg == ResolvedIdentity("ORG_SLUG", "org", "aethericforge")
ResolvedEnv == ResolvedIdentity("ENV", "env", "kubeadm")

\* The field the Core module must reject, "" if none.
BadIdentity ==
    IF ~IdentityShape(ResolvedOrg) THEN "ORG_SLUG"
    ELSE IF ~IdentityShape(ResolvedEnv) THEN "ENV"
    ELSE ""

\* The run ended inside the Core module with an error naming field and value.
CoreRejected(field, value) ==
    /\ pc = Aborted
    /\ StartedModules[Len(StartedModules)] = "Core"
    /\ log[Len(log)] =
           Ev("exit", "", "exception",
              "ValueError " \o field \o " Got: '" \o value \o "'", "")

\* C13: "-bad" and "" do not have the identity shape and "abc-123" has it;
\* once the Core module has run, a resolved org slug or environment name
\* without the shape means the run ended in Core with an error naming the
\* field and the value, with no resolved value written and no later module
\* started, and a well-shaped pair is not rejected; ORG_SLUG and ENV, when
\* present in the resolved values, always have the shape.
C13_IdentityValidation ==
    /\ ~IdentityShape("-bad") /\ ~IdentityShape("") /\ IdentityShape("abc-123")
    /\ "ORG_SLUG" \in DOMAIN env_values => IdentityShape(env_values["ORG_SLUG"])
    /\ "ENV" \in DOMAIN env_values => IdentityShape(env_values["ENV"])
    /\ (Left("Core") /\ BadIdentity = "ORG_SLUG") =>
           (CoreRejected("ORG_SLUG", ResolvedOrg) /\ env_values = EmptyMap)
    /\ (Left("Core") /\ BadIdentity = "ENV") =>
           (CoreRejected("ENV", ResolvedEnv) /\ env_values = EmptyMap)
    /\ (Left("Core") /\ BadIdentity = "") =>
           /\ \A i \in ActionsOf("Core") :
                  log[i].ev = "exit" => ~StartsWith(log[i].obj, "ValueError ORG_SLUG")
                                        /\ ~StartsWith(log[i].obj, "ValueError ENV")

\* The org slug "-bad" was rejected by the Core module.
C13_Witness ==
    /\ ResolvedOrg = "-bad"
    /\ CoreRejected("ORG_SLUG", "-bad")
    /\ env_values = EmptyMap

-----------------------------------------------------------------------------
(* C16 *)

\* No root-app path was persisted and none was entered at the prompt.
NoRootAppGiven ==
    /\ "ROOT_APP_PATH" \notin DOMAIN existing_env
    /\ \/ args.non_interactive
       \/ args.yes
       \/ Strip(Get(input, "root_app_path", "")) = ""

\* C16: once the Core module has written its values, ROOT_APP_PATH is
\* neither empty nor blank, and when no path was persisted or entered it is
\* gitops/clusters/<ENV>/root-app.yaml for the ENV resolved in the same run.
C16_RootAppPathNeverEmpty ==
    "ROOT_APP_PATH" \in DOMAIN env_values =>
        /\ env_values["ROOT_APP_PATH"] # ""
        /\ Strip(env_values["ROOT_APP_PATH"]) # ""
        /\ NoRootAppGiven =>
               env_values["ROOT_APP_PATH"] =
                   "gitops/clusters/" \o env_values["ENV"] \o "/root-app.yaml"

\* The default path was built from the environment name dev.
C16_Witness ==
    /\ Left("Core")
    /\ NoRootAppGiven
    /\ "ROOT_APP_PATH" \in DOMAIN env_values
    /\ env_values["ENV"] = "dev"
    /\ env_values["ROOT_APP_PATH"] = "gitops/clusters/dev/root-app.yaml"

-----------------------------------------------------------------------------
(* C17 *)

\* A flag if given and not empty, else the persisted value, else the default.
FlagOrPersisted(flag, key, default) ==
    IF flag # None /\ flag # "" THEN flag ELSE Get(existing_env, key, default)

CfTokenFile ==
    Strip(FlagOrPersisted(args.cloudflare_token_file, "CLOUDFLARE_API_TOKEN_FILE", ""))

CfPrimary ==
    LET ns == Strip(FlagOrPersisted(args.cloudflare_secret_namespace,
                                    "CLOUDFLARE_API_TOKEN_SECRET_NAMESPACE",
                                    "cert-manager"))
    IN  IF ns = "" THEN "cert-manager" ELSE ns

CfName ==
    LET n == Strip(FlagOrPersisted(args.cloudflare_secret_name,
                                   "CLOUDFLARE_API_TOKEN_SECRET_NAME",
                                   "cloudflare-api-token"))
    IN  IF n = "" THEN "cloudflare-api-token" ELSE n

\* The duplicate namespace configured, "" if none.
CfDuplicate ==
    IF args.cloudflare_token_duplicate_namespace # None
    THEN args.cloudflare_token_duplicate_namespace
    ELSE Strip(Get(existing_env, "CLOUDFLARE_API_TOKEN_DUPLICATE_NAMESPACE", ""))

\* The secret applies the Cloudflare module issued.
CfApplies ==
    {i \in ActionsOf("Cloudflare") :
        /\ log[i].ev = "cmd"
        /\ log[i].verb = "apply"
        /\ StartsWith(log[i].obj, "secret/")}

CfAppliesTo(ns) ==
    {i \in CfApplies : log[i].obj = "secret/" \o ns \o "/" \o CfName}

CfTokenUsable ==
    /\ CfTokenFile \in DOMAIN files
    /\ Strip(files[CfTokenFile]) # ""

-----------------------------------------------------------------------------
(* C18 *)

\* Where the RFC2136 modules keep their TSIG secret: the file given on the
\* command line and the two default files.
TsigSecretPaths ==
    {SecretFile,
     InRepo("bootstrap/inputs/rfc2136-tsig.secret"),
     InRepo("bootstrap/inputs/cm-rfc2136-tsig.secret")}

\* C18: no step of any run or re-run changes a TSIG secret file that exists,
\* and a TSIG secret file appears only with the generate flag given, holding
\* a newly generated secret.
C18_TsigIdempotentByPresence ==
    [][\A p \in TsigSecretPaths :
           /\ p \in DOMAIN files => (p \in DOMAIN files' /\ files'[p] = files[p])
           /\ (p \notin DOMAIN files /\ p \in DOMAIN files') =>
                  /\ args.rfc2136_tsig_generate \/ args.cm_rfc2136_tsig_generate
                  /\ files'[p] \in TsigSecrets]_vars

\* The second run went through the RFC2136 module with the generate flag and
\* the secret file the first run had generated is as the first run left it.
C18_Witness ==
    /\ run = 2
    /\ Left("RFC2136")
    /\ args.rfc2136_tsig_generate
    /\ args.rfc2136_tsig_secret_file = None
    /\ InRepo("bootstrap/inputs/rfc2136-tsig.secret") \in DOMAIN after.files
    /\ files[InRepo("bootstrap/inputs/rfc2136-tsig.secret")]
           = after.files[InRepo("bootstrap/inputs/rfc2136-tsig.secret")]
    /\ after.files[InRepo("bootstrap/inputs/rfc2136-tsig.secret")] \in TsigSecrets

-----------------------------------------------------------------------------
(* C19 *)

SixCrds ==
    {"ipaddresspools.metallb.io", "bgppeers.metallb.io",
     "bgpadvertisements.metallb.io", "l2advertisements.metallb.io",
     "communities.metallb.io", "bfdprofiles.metallb.io"}

\* The commands of the MetalLB module with the given tool and verb.
LbCmds(tool, verb) ==
    {i \in ActionsOf("MetalLB") :
        log[i].ev = "cmd" /\ log[i].tool = tool /\ log[i].verb = verb}

LbNamespaceEnsure ==
    {i \in LbCmds("kubectl", "apply") : StartsWith(log[i].obj, "namespace/")}

LbWaitFor(crd) == {i \in LbCmds("kubectl", "wait") : log[i].obj = "crd/" \o crd}

\* The steps in the order claimed.
LbSteps ==
    <<LbNamespaceEnsure, LbCmds("helm", "repo-add"), LbCmds("helm", "upgrade-install"),
      LbCmds("kubectl", "rollout-status"), LbCmds("kubectl", "wait")>>

\* The module ran to its end.
LbCompleted ==
    /\ Left("MetalLB")
    /\ \A i \in ActionsOf("MetalLB") : log[i].ev # "exit"

\* Nothing but the helm repo registration, the namespace ensure or a trimmed
\* chart goes wrong.
LbTolerable == faults \subseteq {"metallb-repo", "metallb-trimmed", "ns-ensure"}

\* C19: once the MetalLB module has run: without --with-metallb it did
\* nothing, whatever is persisted; with the flag its commands come in the
\* order namespace ensure, helm repo registration, release install, rollout
\* wait, CRD waits; a failing repo registration does not end the run; when
\* the module runs to its end each of the first four steps was done once and
\* a wait was issued for exactly those of the six CRD names that are in the
\* cluster, an absent CRD ending nothing.
C19_MetalLBModule ==
    Left("MetalLB") =>
        /\ ~args.with_metallb => ActionsOf("MetalLB") = {}
        /\ args.with_metallb =>
               /\ \A a \in 1..4 : \A i \in LbSteps[a], j \in LbSteps[a + 1] : i < j
               /\ \A i \in LbCmds("kubectl", "wait") :
                      \E crd \in SixCrds \cap cluster.crds : i \in LbWaitFor(crd)
               /\ LbTolerable => LbCompleted
               /\ LbCompleted =>
                      /\ \A a \in 1..4 : Cardinality(LbSteps[a]) = 1
                      /\ \A crd \in SixCrds :
                             Cardinality(LbWaitFor(crd)) =
                                 IF crd \in cluster.crds THEN 1 ELSE 0

\* The repo registration failed and the chart brought two of the six CRDs:
\* the run completed with two waits.
C19_Witness ==
    /\ pc = Done
    /\ args.with_metallb
    /\ faults = {"metallb-repo", "metallb-trimmed"}
    /\ LbCompleted
    /\ Cardinality(LbCmds("kubectl", "wait")) = 2

\* METALLB_ENABLED=true is persisted, the flag is not given: nothing is done.
C19_NoFlagWitness ==
    /\ Left("MetalLB")
    /\ ~args.with_metallb
    /\ Get(existing_env, "METALLB_ENABLED", "") = "true"
    /\ ActionsOf("MetalLB") = {}

-----------------------------------------------------------------------------
(* C20 *)

\* The lines of the env file after its three header lines.
EnvLines == SubSeq(envFile, 4, Len(envFile))

KeyOfLine(line) == SubSeq(line, 1, Find(line, "=") - 1)

FileKeys == {KeyOfLine(EnvLines[i]) : i \in 1..Len(EnvLines)}

\* A value that is written between double quotes as it is.
PlainValue(v) == Find(v, "\"") = 0 /\ Find(v, "\\") = 0

\* C20: after a run that completed, the env file holds, after its header,
\* one line per key of the resolved values and no other line, the keys in
\* ascending order, each line giving its key's resolved value; a key the
\* file held before the run that no module set is not in it.
C20_EnvFileRegenerated ==
    pc = Done =>
        /\ Len(envFile) >= 3
        /\ Len(EnvLines) = Cardinality(DOMAIN env_values)
        /\ FileKeys = DOMAIN env_values
        /\ \A i \in 1..(Len(EnvLines) - 1) :
               StrLess(KeyOfLine(EnvLines[i]), KeyOfLine(EnvLines[i + 1]))
        /\ \A i \in 1..Len(EnvLines) :
               LET k == KeyOfLine(EnvLines[i])
               IN  PlainValue(env_values[k]) =>
                       EnvLines[i] = k \o "=\"" \o env_values[k] \o "\""
        /\ \A k \in DOMAIN existing_env :
               k \notin DOMAIN env_values => k \notin FileKeys

\* A persisted key no module set is gone from the rewritten file.
C20_Witness ==
    /\ pc = Done
    /\ "RFC2136_TSIG_SECRET_NAMESPACE" \in DOMAIN existing_env
    /\ "RFC2136_TSIG_SECRET_NAMESPACE" \notin FileKeys
    /\ Len(EnvLines) >= 9

-----------------------------------------------------------------------------
(* C21 *)

\* The restarts of a deployment the SSH module issued.
SshRestarts ==
    {i \in ActionsOf("SSH") : log[i].ev = "cmd" /\ log[i].verb = "rollout-restart"}

\* The deployment named ns/name is in the cluster.
Deployed(obj) ==
    \E d \in cluster.deployments : NsName(d[1], d[2]) = obj

\* C21: a deployment the SSH module restarts is in the cluster before any
\* later module has run: it does not take the ArgoCD module, which runs
\* after it, to have installed it.
C21_NoLaterDependence ==
    (Left("SSH") /\ ~HasStarted("ArgoCD")) =>
        \A i \in SshRestarts : Deployed(log[i].obj)

-----------------------------------------------------------------------------
(* C22 *)

ArgoNamespace == Get(env_values, "ARGO_NAMESPACE", "argocd")

\* The install step came before the root-app apply i, in the ArgoCD module
\* of this run: the namespace ensure, then helm upgrade --install.
InstalledBefore(i) ==
    \E e, h \in ActionsOf("ArgoCD") :
        /\ e < h /\ h < i
        /\ log[e].ev = "cmd" /\ log[e].tool = "kubectl" /\ log[e].verb = "apply"
        /\ log[e].obj = "namespace/" \o ArgoNamespace
        /\ log[h].ev = "cmd" /\ log[h].tool = "helm" /\ log[h].verb = "upgrade-install"
        /\ log[h].obj = NsName(ArgoNamespace, "argocd")

RootApplies ==
    {i \in ActionsOf("ArgoCD") :
        /\ log[i].ev = "cmd" /\ log[i].tool = "kubectl" /\ log[i].verb = "apply"
        /\ log[i].obj = RootAppManifest}

\* C22 as stated: whenever the root application is applied, the Argo CD
\* install step has completed earlier in the same run.
C22_ActivationFollowsInstall ==
    HasStarted("ArgoCD") => \A i \in RootApplies : InstalledBefore(i)

\* C22, amended: in a run without --skip-argo-install, whenever the root
\* application is applied the namespace ensure and helm upgrade --install
\* came earlier in the same run, the release is installed and the target
\* namespace exists.
C22_ActivationFollowsInstallUnlessSkipped ==
    (HasStarted("ArgoCD") /\ ~args.skip_argo_install) =>
        \A i \in RootApplies :
            /\ InstalledBefore(i)
            /\ <<ArgoNamespace, "argocd">> \in DOMAIN cluster.releases
            /\ ArgoNamespace \in cluster.namespaces

\* The root application was applied after an install in the same run.
C22_Witness ==
    /\ HasStarted("ArgoCD")
    /\ ~args.skip_argo_install
    /\ RootApplies # {}
    /\ \A i \in RootApplies : InstalledBefore(i)
    /\ ArgoNamespace \in cluster.namespaces

-----------------------------------------------------------------------------
(* C23 *)

\* The SSH module has run and had something to do.
SshActed ==
    /\ Left("SSH")
    /\ env_values["REPO_VISIBILITY"] = "private"
    /\ StartsWith(env_values["GIT_REPO_URL"], "git@")

NoKeyGiven ==
    /\ args.ssh_key_file = None
    /\ Strip(Get(existing_env, "SSH_PRIVATE_KEY_FILE", "")) = ""

\* ~/.ssh/id_ed25519, else ~/.ssh/id_rsa, None if neither is there.
ConventionalKey ==
    IF (Home \o "/.ssh/id_ed25519") \in DOMAIN files THEN Home \o "/.ssh/id_ed25519"
    ELSE IF (Home \o "/.ssh/id_rsa") \in DOMAIN files THEN Home \o "/.ssh/id_rsa"
    ELSE None

AbortedInSsh ==
    pc = Aborted /\ StartedModules[Len(StartedModules)] = "SSH"

\* The repository secret the SSH module applies.
RepoSecret == <<Get(env_values, "ARGO_NAMESPACE", "argocd"), "repo-git-ssh">>

\* C23: in a non-interactive run in which the SSH module acts and no key
\* file is given by the flag or the persisted values, the run ends in the SSH
\* module with exit code 2 only if there is no conventional key, and with a
\* conventional key and a working host-key scan the repository secret is
\* applied with that key.
C23_ConventionalKeyFallback ==
    (SshActed /\ args.non_interactive /\ NoKeyGiven) =>
        /\ (AbortedInSsh /\ exitCode = 2 /\ "keyscan" \notin faults) =>
               ConventionalKey = None
        /\ (ConventionalKey # None /\ faults = {}) =>
               /\ RepoSecret \in DOMAIN cluster.secrets
               /\ cluster.secrets[RepoSecret].data["sshPrivateKey"]
                      = Strip(files[ConventionalKey])

-----------------------------------------------------------------------------
(* C24 *)

\* How often the character c occurs in s.
RECURSIVE Occurrences(_, _)
Occurrences(s, c) ==
    IF s = "" THEN 0
    ELSE (IF Char(s, 1) = c THEN 1 ELSE 0) + Occurrences(SubSeq(s, 2, Len(s)), c)

\* owner/repo: one slash between two non-empty names, no host, no scheme, no
\* .git at the end.
CanonicalRepo(v) ==
    /\ Occurrences(v, "/") = 1
    /\ Occurrences(v, ":") = 0
    /\ Occurrences(v, "@") = 0
    /\ ~StartsWith(v, "/")
    /\ ~EndsWith(v, "/")
    /\ ~EndsWith(v, ".git")

\* C24: once the Core module has written its values, in every mode,
\* GITHUB_REPO is empty or in owner/repo form, and GIT_REPO_URL, when there
\* is a repository, is the HTTPS or SSH clone URL of that owner/repo.
C24_CanonicalRepoEveryMode ==
    "GITHUB_REPO" \in DOMAIN env_values =>
        \/ env_values["GITHUB_REPO"] = ""
        \/ /\ CanonicalRepo(env_values["GITHUB_REPO"])
           /\ env_values["GIT_REPO_URL"] \in
                  {"https://github.com/" \o env_values["GITHUB_REPO"] \o ".git",
                   "git@github.com:" \o env_values["GITHUB_REPO"] \o ".git"}

-----------------------------------------------------------------------------
(* C25 *)

\* An instance of the RFC2136 module: its module name, the prefix of its
\* flags, of its keys and of its file names.
TsigInstances ==
    {[module |-> "RFC2136", flag |-> "", key |-> "", file |-> "",
      secret |-> <<"external-dns-internal", "rfc2136-tsig">>],
     [module |-> "CM_RFC2136", flag |-> "cm_", key |-> "CM_", file |-> "cm-",
      secret |-> <<"cert-manager", "rfc2136-tsig">>]}

\* The value of an input of the instance: its flag, else the persisted key.
TsigInput(t, flag, key) ==
    Strip(FlagOrPersisted(args[t.flag \o flag], t.key \o key, ""))

\* The secret file of the instance, None if it has none.
TsigSecretPath(t) ==
    LET given == TsigInput(t, "rfc2136_tsig_secret_file", "RFC2136_TSIG_SECRET_FILE")
    IN  IF given # "" THEN (IF StartsWith(given, "/") THEN given ELSE InRepo(given))
        ELSE IF args[t.flag \o "rfc2136_tsig_generate"]
        THEN InRepo("bootstrap/inputs/" \o t.file \o "rfc2136-tsig.secret")
        ELSE None

TsigSnippetPath(t) == InRepo("bootstrap/generated/bind9/" \o t.file \o "rfc2136-tsig.conf")

TsigWrites(t, path) ==
    {i \in ActionsOf(t.module) : log[i].ev = "write" /\ log[i].verb = path}

TsigApplies(t) ==
    {i \in ActionsOf(t.module) :
        /\ log[i].ev = "cmd" /\ log[i].verb = "apply"
        /\ log[i].obj = "secret/" \o t.secret[1] \o "/" \o t.secret[2]}

TsigWarnings(t) == {i \in ActionsOf(t.module) : log[i].ev = "warn"}

\* What the snippet needs: zone, key name, algorithm, an existing secret file.
TsigSnippetInputs(t) ==
    /\ TsigInput(t, "rfc2136_zone", "RFC2136_ZONE") # ""
    /\ TsigInput(t, "rfc2136_tsig_keyname", "RFC2136_TSIG_KEYNAME") # ""
    /\ TsigInput(t, "rfc2136_tsig_alg", "RFC2136_TSIG_ALG") # ""
    /\ TsigSecretPath(t) # None
    /\ TsigSecretPath(t) \in DOMAIN files

\* The text between secret " and the next " of a snippet.
SnippetSecret(text) ==
    LET marker == "secret \""
        at == CHOOSE i \in 1..Len(text) :
                  i + Len(marker) - 1 <= Len(text)
                  /\ SubSeq(text, i, i + Len(marker) - 1) = marker
        rest == SubSeq(text, at + Len(marker), Len(text))
    IN  SubSeq(rest, 1, Find(rest, "\"") - 1)

TsigStagesInOrder(t) ==
    /\ \A i \in TsigWrites(t, TsigSecretPath(t)), j \in TsigWrites(t, TsigSnippetPath(t)) :
           i < j
    /\ \A j \in TsigWrites(t, TsigSnippetPath(t)), k \in TsigApplies(t) : j < k
    /\ \A i \in TsigWrites(t, TsigSecretPath(t)), k \in TsigApplies(t) : i < k

TsigSameContent(t) ==
    /\ TsigWrites(t, TsigSnippetPath(t)) # {} =>
           /\ TsigSecretPath(t) \in DOMAIN files
           /\ SnippetSecret(files[TsigSnippetPath(t)]) = Strip(files[TsigSecretPath(t)])
    /\ TsigApplies(t) # {} =>
           /\ t.secret \in DOMAIN cluster.secrets
           /\ cluster.secrets[t.secret].data
                  = [k \in {"tsig-secret"} |-> Strip(files[TsigSecretPath(t)])]

TsigSnippetRule(t) ==
    args[t.flag \o "emit_bind9_snippet"] =>
        /\ TsigSnippetInputs(t) =>
               (TsigWrites(t, TsigSnippetPath(t)) # {} /\ TsigWarnings(t) = {})
        /\ ~TsigSnippetInputs(t) =>
               /\ TsigWrites(t, TsigSnippetPath(t)) = {}
               /\ TsigSnippetPath(t) \notin DOMAIN files
               /\ TsigWarnings(t) # {}
               /\ (args[t.flag \o "apply_rfc2136_tsig_secret"]
                   /\ TsigSecretPath(t) # None
                   /\ TsigSecretPath(t) \in DOMAIN files) => TsigApplies(t) # {}

-----------------------------------------------------------------------------
(* C26 *)

ExternalDns == CHOOSE t \in TsigInstances : t.module = "RFC2136"
CertManager == CHOOSE t \in TsigInstances : t.module = "CM_RFC2136"

\* The resolved-values keys of an instance.
TsigKey(t, k) == StartsWith(k, t.key \o "RFC2136_")

\* The files an instance has by default: its secret file and its snippet.
TsigDefaultFiles(t) ==
    {InRepo("bootstrap/inputs/" \o t.file \o "rfc2136-tsig.secret"),
     TsigSnippetPath(t)}

\* This step runs the instance t.
TsigStep(t) == pc \in 1..Len(Modules) /\ Modules[pc] = t.module /\ pc' # pc

\* A step leaves what belongs to the instance t as it is.
TsigUntouched(t) ==
    /\ \A k \in (DOMAIN env_values) \cup (DOMAIN env_values') :
           TsigKey(t, k) =>
               /\ k \in DOMAIN env_values /\ k \in DOMAIN env_values'
               /\ env_values'[k] = env_values[k]
    /\ \A f \in TsigDefaultFiles(t) :
           /\ (f \in DOMAIN files) <=> (f \in DOMAIN files')
           /\ f \in DOMAIN files => files'[f] = files[f]
    /\ (t.secret \in DOMAIN cluster.secrets) <=> (t.secret \in DOMAIN cluster'.secrets)
    /\ t.secret \in DOMAIN cluster.secrets =>
           cluster'.secrets[t.secret] = cluster.secrets[t.secret]

\* A step of the instance t sets keys of t only.
TsigOwnKeysOnly(t) ==
    \A k \in DOMAIN env_values' :
        (k \notin DOMAIN env_values \/ env_values'[k] # env_values[k]) => TsigKey(t, k)

\* C26: the two instances have no key, no default file and no default
\* Secret in common, and a step of either instance sets keys of its own
\* prefix only and leaves the other instance's resolved values, default
\* files and cluster Secret as they were.
C26_TsigInstancesIndependent ==
    [][/\ TsigDefaultFiles(ExternalDns) \cap TsigDefaultFiles(CertManager) = {}
       /\ ExternalDns.secret # CertManager.secret
       /\ \A k \in DOMAIN env_values' : ~(TsigKey(ExternalDns, k) /\ TsigKey(CertManager, k))
       /\ TsigStep(ExternalDns) =>
              (TsigOwnKeysOnly(ExternalDns) /\ TsigUntouched(CertManager))
       /\ TsigStep(CertManager) =>
              (TsigOwnKeysOnly(CertManager) /\ TsigUntouched(ExternalDns))]_vars

\* Both instances went through all their stages in one run, each with its
\* own values, files and Secret.
C26_Witness ==
    /\ Left("CM_RFC2136")
    /\ \A t \in TsigInstances :
           /\ \E k \in DOMAIN env_values : TsigKey(t, k)
           /\ TsigSnippetPath(t) \in DOMAIN files
           /\ t.secret \in DOMAIN cluster.secrets
    /\ InRepo("bootstrap/inputs/cm-rfc2136-tsig.secret") \in DOMAIN files

-----------------------------------------------------------------------------
(* C27 *)

KnownHostsCache == RepoRoot \o "/bootstrap/generated/known_hosts"

\* The SSH module got to its known_hosts stage, first run: it acted and did
\* not end on the key.
AtKnownHosts ==
    /\ run = 1
    /\ SshActed
    /\ ~(NoKeyGiven /\ args.non_interactive)

\* The cache as the run found it has nothing to reuse.
CacheUnusable ==
    \/ KnownHostsCache \notin DOMAIN after.files
    \/ after.files[KnownHostsCache] = ""

Scans == {i \in ActionsOf("SSH") : log[i].ev = "cmd" /\ log[i].tool = "ssh-keyscan"}

CacheWrites ==
    {i \in ActionsOf("SSH") : log[i].ev = "write" /\ log[i].verb = KnownHostsCache}

SshSecretApplies ==
    {i \in ActionsOf("SSH") :
        log[i].ev = "cmd" /\ log[i].verb = "apply" /\ StartsWith(log[i].obj, "secret/")}

CacheAsFound ==
    /\ (KnownHostsCache \in DOMAIN files) <=> (KnownHostsCache \in DOMAIN after.files)
    /\ KnownHostsCache \in DOMAIN files =>
           files[KnownHostsCache] = after.files[KnownHostsCache]

\* C27: once the SSH module has got to its known_hosts stage with known_hosts
\* handling not disabled, the host keys were scanned if and only if the
\* refresh flag is set or the cache file was missing or empty; after a scan
\* that worked the cache file holds the scanned keys, without a scan it is as
\* it was, and in both cases its path is SSH_KNOWN_HOSTS_FILE; after a scan
\* that failed the run has ended in the SSH module with no repository secret
\* applied and the cache as it was.
C27_KnownHostsCacheReuse ==
    (AtKnownHosts /\ ~args.no_known_hosts) =>
        /\ Scans # {} <=> (args.refresh_known_hosts \/ CacheUnusable)
        /\ Cardinality(Scans) <= 1
        /\ (Scans # {} /\ "keyscan" \notin faults) =>
               /\ Cardinality(CacheWrites) = 1
               /\ files[KnownHostsCache] = KeyscanOutput
               /\ env_values["SSH_KNOWN_HOSTS_FILE"] = KnownHostsCache
        /\ Scans = {} =>
               /\ CacheWrites = {}
               /\ CacheAsFound
               /\ env_values["SSH_KNOWN_HOSTS_FILE"] = KnownHostsCache
        /\ (Scans # {} /\ "keyscan" \in faults) =>
               /\ AbortedInSsh
               /\ SshSecretApplies = {}
               /\ cluster.secrets = EmptyMap
               /\ CacheAsFound

\* A filled cache was reused: no scan, the file as it was, the repository
\* secret applied with it.
C27_Witness ==
    /\ AtKnownHosts
    /\ ~args.no_known_hosts
    /\ ~args.refresh_known_hosts
    /\ Scans = {}
    /\ files[KnownHostsCache] = CachedKnownHosts
    /\ RepoSecret \in DOMAIN cluster.secrets
    /\ cluster.secrets[RepoSecret].data["sshKnownHosts"] = CachedKnownHosts

-----------------------------------------------------------------------------
(* C28 *)

\* helm invocations that work on the local chart repositories only.
LocalHelmVerbs == {"repo-add", "repo-update", "template"}

\* The invocations that read or change the cluster.
ClusterCommands ==
    {i \in 1..Len(log) :
        /\ log[i].ev = "cmd"
        /\ \/ log[i].tool = "kubectl"
           \/ (log[i].tool = "helm" /\ log[i].verb \notin LocalHelmVerbs)}

ContextGiven == args.kube_context # None /\ args.kube_context # ""

\* C28: in a run with a non-empty --kube-context every kubectl and helm
\* invocation that reads or changes the cluster carries that context, in
\* every module and helper; in a run without it no invocation carries one.
C28_OneClusterPerRun ==
    /\ ContextGiven => \A i \in ClusterCommands : log[i].ctx = args.kube_context
    /\ ~ContextGiven => \A i \in 1..Len(log) : log[i].ctx = ""

\* A run with --kube-context prod-cluster completed, every module having
\* worked on the cluster.
C28_Witness ==
    /\ pc = Done
    /\ args.kube_context = "prod-cluster"
    /\ \A m \in {"Validation", "SSH", "Cloudflare", "RFC2136", "CM_RFC2136",
                 "ArgoCD", "MetalLB"} :
           \E i \in ClusterCommands : ModuleOf(i) = m /\ log[i].ctx = "prod-cluster"
    /\ \E i \in ClusterCommands : log[i].tool = "helm"
    /\ \E i \in ClusterCommands : log[i].verb = "label"

-----------------------------------------------------------------------------
(* C29 *)

SetEvents == {i \in 1..Len(log) : log[i].ev = "set"}

\* The module instances that have set the key k in this run.
WritersOf(k) == {ModuleOf(i) : i \in {j \in SetEvents : log[j].verb = k}}

\* The value the key k was last set to.
LastSet(k) ==
    LET last == CHOOSE i \in SetEvents :
                    /\ log[i].verb = k
                    /\ \A j \in SetEvents : log[j].verb = k => j <= i
    IN  log[last].obj

\* C29: each key of the resolved values was set by exactly one module
\* instance of the run, and its value is the one that instance set.
C29_KeyOwnership ==
    /\ \A i \in SetEvents : log[i].verb \in DOMAIN env_values
    /\ \A k \in DOMAIN env_values :
           /\ Cardinality(WritersOf(k)) = 1
           /\ env_values[k] = LastSet(k)

\* A completed run in which seven module instances each set keys of their
\* own.
C29_Witness ==
    /\ pc = Done
    /\ {ModuleOf(i) : i \in SetEvents} =
           {"Core", "SSH", "Cloudflare", "RFC2136", "CM_RFC2136", "ArgoCD", "MetalLB"}
    /\ \A k \in DOMAIN env_values : Cardinality(WritersOf(k)) = 1

-----------------------------------------------------------------------------
(* _write_env_file and _parse_env_file called on their own *)

RoundTripKeys == {"ENV", "NOTE", "ZONE"}

\* Plain values, an empty one, one with blanks at its ends, and values with
\* double quotes and backslashes in them.
RoundTripValues ==
    {"dev", "", " padded ", "say \"hi\"", "C:\\tmp", "\"quoted\""}

RoundTripMaps ==
    UNION {[K -> RoundTripValues] : K \in SUBSET RoundTripKeys}

InitEnvFile ==
    \E values \in RoundTripMaps :
        /\ args = BaseArgs
        /\ faults = {}
        /\ input = EmptyMap
        /\ envFile = <<>>
        /\ existing_env = EmptyMap
        /\ env_values = values
        /\ files = BaseFiles
        /\ cluster = EmptyCluster
        /\ log = <<>>
        /\ pc = InHelper
        /\ exitCode = NoExit
        /\ run = 1
        /\ after = [cluster |-> EmptyCluster, files |-> BaseFiles, envFile |-> <<>>,
                    env_values |-> EmptyMap, exit |-> NoExit]
        /\ call = NoCall

\* _write_env_file(env_path, env_values)
CallWriteEnvFile ==
    /\ pc = InHelper
    /\ ~Returned("_write_env_file")
    /\ envFile' = _write_env_file(env_values)
    /\ log' = Append(log, Ev("return", "_write_env_file", "value", "", ""))
    /\ UNCHANGED <<args, faults, input, existing_env, env_values, files, cluster,
                   pc, exitCode, run, after, call>>

\* _parse_env_file(env_path), of the file just written
CallParseEnvFile ==
    /\ pc = InHelper
    /\ Returned("_write_env_file")
    /\ ~Returned("_parse_env_file")
    /\ existing_env' = _parse_env_file(envFile)
    /\ log' = Append(log, Ev("return", "_parse_env_file", "value", "", ""))
    /\ UNCHANGED <<args, faults, input, env_values, envFile, files, cluster,
                   pc, exitCode, run, after, call>>

NextEnvFile ==
    \/ CallWriteEnvFile
    \/ CallParseEnvFile

SpecEnvFile == InitEnvFile /\ [][NextEnvFile]_vars

-----------------------------------------------------------------------------
(* C30 *)

\* C30: the map _parse_env_file reads from the file _write_env_file wrote
\* is the map that was written, whatever its values hold.
C30_EnvFileRoundTrip ==
    Returned("_parse_env_file") => existing_env = env_values

-----------------------------------------------------------------------------
(* C31 *)

\* C31: in every run with --no-cloudflare-token-duplicate in which the
\* Cloudflare module has run, every secret apply the module issued went to the
\* primary namespace: no duplicate namespace received the token, one found in
\* the persisted values included.
C31_NoDuplicateWhenDisabled ==
    (Left("Cloudflare") /\ args.no_cloudflare_token_duplicate) =>
        /\ CfApplies \subseteq CfAppliesTo(CfPrimary)
        /\ \A ns \in {"external-dns"} \ {CfPrimary} :
               <<ns, CfName>> \notin DOMAIN cluster.secrets

-----------------------------------------------------------------------------
(* C32 *)

\* The flags that give a value in place of a persisted one.
OverrideFlags ==
    {"env_name", "repo_ref", "ssh_key_file", "repo_ssh_secret",
     "cloudflare_token_file", "cloudflare_secret_name",
     "cloudflare_secret_namespace", "cloudflare_token_duplicate_namespace",
     "rfc2136_host", "rfc2136_zone", "rfc2136_tsig_keyname", "rfc2136_tsig_alg",
     "rfc2136_tsig_secret_file", "cm_rfc2136_host", "cm_rfc2136_port",
     "cm_rfc2136_zone", "cm_rfc2136_tsig_keyname", "cm_rfc2136_tsig_alg",
     "cm_rfc2136_tsig_secret_file", "argo_version", "cm_crds_version",
     "cm_crds_mode", "metallb_namespace", "metallb_release",
     "metallb_chart_version", "metallb_chart_repo", "metallb_chart"}

NoOverrides == \A f \in OverrideFlags : args[f] = None

\* The secret applies of the external-dns RFC2136 instance: their namespace
\* and name are read from the persisted values (lines 675-677).
TsigSecretApplied ==
    \E i \in ActionsOf("RFC2136") :
        /\ log[i].ev = "cmd" /\ log[i].verb = "apply"
        /\ StartsWith(log[i].obj, "secret/")

\* The persisted keys whose value a module read and used in this run.
UsedPersistedKeys ==
    {k \in DOMAIN existing_env :
        \/ /\ k \in {"RFC2136_TSIG_SECRET_NAMESPACE", "RFC2136_TSIG_SECRET_NAME",
                      "RFC2136_TSIG_SECRET_KEY"}
           /\ TsigSecretApplied
        \/ /\ k \in {"METALLB_NAMESPACE", "METALLB_RELEASE", "METALLB_CHART",
                      "METALLB_CHART_REPO", "METALLB_CHART_VERSION"}
           /\ LbNamespaceEnsure # {}}

\* C32: after a successful run with no flag overriding a persisted value,
\* each persisted key whose value a module read and used in the run is in
\* the regenerated env file with the value it had.
C32_PersistedConfigurationKept ==
    (pc = Done /\ exitCode = 0 /\ NoOverrides) =>
        \A k \in UsedPersistedKeys :
            /\ k \in FileKeys
            /\ _parse_env_file(envFile)[k] = existing_env[k]

-----------------------------------------------------------------------------
(* C33 *)

\* The questions put to the operator so far.
PromptsIssued == {i \in 1..Len(log) : log[i].ev = "prompt"}

\* C33: in every run started with --non-interactive or with --yes, no module
\* asks the operator for input at any point of the pipeline.
C33_NoPromptWhenSwitchedOff ==
    (args.non_interactive \/ args.yes) => PromptsIssued = {}

====
